---------------------------- MODULE Spec2Model ----------------------------
(***************************************************************************)
(* A model of the computational core of the Poisson surface reconstruction *)
(* engine (Src/MultiGridOctreeData.inl, Src/SparseMatrix.inl).             *)
(*                                                                         *)
(* An octree node is the tuple <<depth, x, y, z>> of its depth and offset  *)
(* (OctNode::depthAndOffset); the tree is the set of nodes that have       *)
(* children.  Arrays of the program are 0-based; the sequences that model  *)
(* them are 1-based, so array slot i is element i + 1 of the sequence.     *)
(***************************************************************************)
EXTENDS Integers, Sequences, FiniteSets, TLC

VARIABLES
    tree,        \* the nodes for which hasChildren() holds
    nodeIndex,   \* nodeData.nodeIndex of every node of the tree
    treeNodes,   \* SortedTreeNodes::treeNodes
    nodeCount,   \* SortedTreeNodes::nodeCount
    maxDepth,    \* SortedTreeNodes::maxDepth
    lastCall,    \* the operation that ran last
    cData,       \* the CornerTableData filled by setCornerTable
    eData,       \* the EdgeTableData filled by setEdgeTable
    tableArgs,   \* rootNode, maxDepth and threads of the last table call
    boundaryType, \* Octree::boundaryType_
    sysDepth,    \* the depth of the linear system assembled last
    matrix,      \* the SparseSymmetricMatrix assembled last: rows of entries
    mul,         \* in, out, addDCTerm and threads of the last Multiply
    sampleDepth, \* the depth handed to DownSample and UpSample
    constraints, \* the constraints array of SetLaplacianConstraints
    coefficients, \* the coefficients array of SetLaplacianConstraints
    cg,          \* the arguments and locals of SparseSymmetricMatrix::Solve
    budget,      \* rows, minIters, fixedIters and iters of a call of Solve
    cascade,     \* the arguments, locals and trace of LaplacianMatrixIteration
    subPass,     \* the sub-domain overload of SolveFixedDepthMatrix: its loop and writes
    iso,         \* the parallel loop of SetIsoCorners: mcIndex of the nodes and the threads
    slots,       \* the corner slots of RootData and the threads that fill them
    getRoot,     \* the arguments and the vertex of a call of GetRoot
    mesh,        \* the mesh sink, the root tables and the threads of GetMCIsoTriangles
    sink,        \* the threads of GetMCIsoTriangles inside and outside the calls of the sink
    twice,       \* two calls of LaplacianMatrixIteration on one tree
    splat,       \* setTree: the passes over the point stream
    centerCall,  \* the call of getCenterValue followed
    isoCall,     \* the call of GetIsoValue followed
    residual,    \* an iteration of Solve followed from the head of the loop
    product,     \* the call of Multiply followed thread by thread
    restricted,  \* the call of GetRestrictedFixedDepthLaplacian followed
    loops,       \* the call of GetEdgeLoops followed
    triangles,   \* the call of AddTriangles followed
    refine       \* the call of refineBoundary followed

sortVars == <<tree, nodeIndex, treeNodes, nodeCount, maxDepth>>

tableVars == <<cData, eData, tableArgs>>

matrixVars == <<boundaryType, sysDepth, matrix, mul>>

sampleVars == <<sampleDepth, constraints, coefficients>>

solveVars == <<cg, budget>>

\* the state of the multigrid cascade and of the iso-surface extraction
stageVars ==
    <<cascade, subPass, iso, slots, getRoot, mesh, sink, twice, splat, centerCall, isoCall,
      residual, product, restricted, loops, triangles, refine>>

\* what the cascade leaves alone
cascadeRest ==
    <<sortVars, tableVars, matrixVars, sampleVars, solveVars, subPass, iso, slots, getRoot,
      mesh, sink, twice, splat, centerCall, isoCall, residual, product, restricted, loops,
      triangles, refine>>

\* what the marching-cube indices leave alone
isoRest ==
    <<sortVars, tableVars, matrixVars, sampleVars, solveVars, cascade, subPass, slots,
      getRoot, mesh, sink, twice, splat, centerCall, isoCall, residual, product, restricted,
      loops, triangles, refine>>

\* what the corner slots leave alone
slotsRest ==
    <<sortVars, tableVars, matrixVars, sampleVars, solveVars, cascade, subPass, iso, getRoot,
      mesh, sink, twice, splat, centerCall, isoCall, residual, product, restricted, loops,
      triangles, refine>>

\* what GetRoot leaves alone
getRootRest ==
    <<sortVars, tableVars, matrixVars, sampleVars, solveVars, cascade, subPass, iso, slots,
      mesh, sink, twice, splat, centerCall, isoCall, residual, product, restricted, loops,
      triangles, refine>>

\* what the extraction of the mesh leaves alone
meshRest ==
    <<sortVars, tableVars, matrixVars, sampleVars, solveVars, cascade, subPass, iso, slots,
      getRoot, sink, twice, splat, centerCall, isoCall, residual, product, restricted, loops,
      triangles, refine>>

\* what the calls of the sink leave alone
sinkRest ==
    <<sortVars, tableVars, matrixVars, sampleVars, solveVars, cascade, subPass, iso, slots,
      getRoot, mesh, twice, splat, centerCall, isoCall, residual, product, restricted, loops,
      triangles, refine>>

\* what the two calls leave alone
twiceRest ==
    <<sortVars, tableVars, matrixVars, sampleVars, solveVars, cascade, subPass, iso, slots,
      getRoot, mesh, sink, splat, centerCall, isoCall, residual, product, restricted, loops,
      triangles, refine>>

\* what setTree leaves alone
splatRest ==
    <<sortVars, tableVars, matrixVars, sampleVars, solveVars, cascade, subPass, iso, slots,
      getRoot, mesh, sink, twice, centerCall, isoCall, residual, product, restricted, loops,
      triangles, refine>>

\* what getCenterValue leaves alone
centerCallRest ==
    <<sortVars, tableVars, matrixVars, sampleVars, solveVars, cascade, subPass, iso, slots,
      getRoot, mesh, sink, twice, splat, isoCall, residual, product, restricted, loops,
      triangles, refine>>

\* what GetIsoValue leaves alone
isoCallRest ==
    <<sortVars, tableVars, matrixVars, sampleVars, solveVars, cascade, subPass, iso, slots,
      getRoot, mesh, sink, twice, splat, centerCall, residual, product, restricted, loops,
      triangles, refine>>

\* what an iteration of Solve leaves alone
residualRest ==
    <<sortVars, tableVars, matrixVars, sampleVars, solveVars, cascade, subPass, iso, slots,
      getRoot, mesh, sink, twice, splat, centerCall, isoCall, product, restricted, loops,
      triangles, refine>>

\* what Multiply leaves alone
productRest ==
    <<sortVars, tableVars, matrixVars, sampleVars, solveVars, cascade, subPass, iso, slots,
      getRoot, mesh, sink, twice, splat, centerCall, isoCall, residual, restricted, loops,
      triangles, refine>>

\* what GetRestrictedFixedDepthLaplacian leaves alone
restrictedRest ==
    <<sortVars, tableVars, matrixVars, sampleVars, solveVars, cascade, subPass, iso, slots,
      getRoot, mesh, sink, twice, splat, centerCall, isoCall, residual, product, loops,
      triangles, refine>>

\* what the renumbering of GetRestrictedFixedDepthLaplacian leaves alone, the
\* tree and its sorted nodes aside
restrictedKept ==
    <<tableVars, matrixVars, sampleVars, solveVars, cascade, subPass, iso, slots, getRoot,
      mesh, sink, twice, splat, centerCall, isoCall, residual, product, loops, triangles,
      refine>>

\* what GetEdgeLoops leaves alone
loopsRest ==
    <<sortVars, tableVars, matrixVars, sampleVars, solveVars, cascade, subPass, iso, slots,
      getRoot, mesh, sink, twice, splat, centerCall, isoCall, residual, product, restricted,
      triangles, refine>>

\* what AddTriangles leaves alone
trianglesRest ==
    <<sortVars, tableVars, matrixVars, sampleVars, solveVars, cascade, subPass, iso, slots,
      getRoot, mesh, sink, twice, splat, centerCall, isoCall, residual, product, restricted,
      loops, refine>>

\* what refineBoundary leaves alone
refineRest ==
    <<sortVars, tableVars, matrixVars, sampleVars, solveVars, cascade, subPass, iso, slots,
      getRoot, mesh, sink, twice, splat, centerCall, isoCall, residual, product, restricted,
      loops, triangles>>

\* what a sub-domain pass leaves alone
subPassRest ==
    <<sortVars, tableVars, matrixVars, sampleVars, solveVars, cascade, iso, slots, getRoot,
      mesh, sink, twice, splat, centerCall, isoCall, residual, product, restricted, loops,
      triangles, refine>>

\* what assembling and applying a matrix leaves alone
systemVars == <<sampleVars, solveVars, stageVars>>

\* what building and sorting the tree leaves alone
restVars == <<tableVars, matrixVars, systemVars>>

vars == <<sortVars, lastCall, tableVars, matrixVars, systemVars>>

(***************************************************************************)
(* Bounds of the model.                                                    *)
(***************************************************************************)
\* the number of nodes that may be given children (calls of initChildren)
MaxInternal == 3

(***************************************************************************)
(* Octree geometry (OctNode, Cube).                                        *)
(***************************************************************************)
Root == <<0, 0, 0, 0>>

Depth(n) == n[1]

\* Cube::FactorCornerIndex: corner (or child) index -> its x, y, z bits
FactorCornerIndex(c) == <<c % 2, (c \div 2) % 2, (c \div 4) % 2>>

\* Cube::CornerIndex
CornerIndex(x, y, z) == 4 * z + 2 * y + x

\* Cube::AntipodalCornerIndex
AntipodalCornerIndex(c) ==
    LET f == FactorCornerIndex(c) IN CornerIndex(1 - f[1], 1 - f[2], 1 - f[3])

\* OctNode::child(c): child c of node n
Child(n, c) ==
    LET f == FactorCornerIndex(c)
    IN <<n[1] + 1, 2 * n[2] + f[1], 2 * n[3] + f[2], 2 * n[4] + f[3]>>

\* OctNode::parent()
Parent(n) == <<n[1] - 1, n[2] \div 2, n[3] \div 2, n[4] \div 2>>

\* OctNode::childIndex: which child of its parent n is
ChildIndex(n) == CornerIndex(n[2] % 2, n[3] % 2, n[4] % 2)

\* the eight children of n, in child order
Children(n) == [c \in 1..8 |-> Child(n, c - 1)]

\* every node of the tree whose set of refined nodes is t
NodesOf(t) == {Root} \cup {Child(n, c) : n \in t, c \in 0..7}

\* OctNode::hasChildren
HasChildren(t, n) == n \in t

\* OctNode::nodes(): the number of nodes below and including the root
Nodes(t) == Cardinality(NodesOf(t))

SetMax(S) == CHOOSE m \in S : \A k \in S : k <= m

\* OctNode::maxDepth(): the depth of the deepest node
TreeMaxDepth(t) == SetMax({Depth(n) : n \in NodesOf(t)})

\* the ancestor of n at depth d <= Depth(n)
RECURSIVE Ancestor(_, _)
Ancestor(n, d) == IF Depth(n) <= d THEN n ELSE Ancestor(Parent(n), d)

(***************************************************************************)
(* SortedTreeNodes::set                                                    *)
(***************************************************************************)
\* AppendChildren with the child loop stopping one child early
AppendChildrenShort(t, span) ==
    LET parents == SelectSeq(span, LAMBDA n : HasChildren(t, n))
    IN [k \in 1..(7 * Len(parents)) |-> Child(parents[(k - 1) \div 7 + 1], (k - 1) % 7)]

\* the children appended for the nodes of one depth span, in visiting order
AppendChildren(t, span) ==
    LET parents == SelectSeq(span, LAMBDA n : HasChildren(t, n))
    IN [k \in 1..(8 * Len(parents)) |-> Child(parents[(k - 1) \div 8 + 1], (k - 1) % 8)]

\* the loop over the depths d = startDepth + 1 .. maxDepth - 1
RECURSIVE SetDepths(_, _, _, _, _)
SetDepths(t, d, md, tn, nc) ==
    IF d = md THEN [treeNodes |-> tn, nodeCount |-> nc]
    ELSE LET span == SubSeq(tn, nc[d - 1] + 1, nc[d])
             kids == AppendChildren(t, span)
         IN SetDepths(t, d + 1, md, tn \o kids, nc @@ ((d + 1) :> (nc[d] + Len(kids))))

\* treeNodes and nodeCount as set() leaves them
SetTreeNodes(t) ==
    SetDepths(t, 1, TreeMaxDepth(t) + 1, <<Root>>, (0 :> 0) @@ (1 :> 1))

\* SetNodeIndex without the reset and with the last slot left out
SetNodeIndexShort(t, tn, count) ==
    [n \in NodesOf(t) |->
        IF \E i \in 0..(count - 2) : tn[i + 1] = n
        THEN SetMax({i \in 0..(count - 2) : tn[i + 1] = n})
        ELSE -1]

\* nodeIndex as set() leaves it: reset to -1, then treeNodes[i]->nodeIndex = i
SetNodeIndex(t, tn, count) ==
    [n \in NodesOf(t) |->
        IF \E i \in 0..(count - 1) : tn[i + 1] = n
        THEN SetMax({i \in 0..(count - 1) : tn[i + 1] = n})
        ELSE -1]


(***************************************************************************)
(* Neighbour lookup (OctNode::NeighborKey3).                               *)
(***************************************************************************)
Null == <<>>

\* whether m is a node of the tree whose set of refined nodes is t
IsNode(t, m) ==
    \/ m = Root
    \/ /\ m[1] > 0 /\ m[2] >= 0 /\ m[3] >= 0 /\ m[4] >= 0
       /\ Parent(m) \in t

\* the node at offset (dx, dy, dz) from n at n's depth, if the tree has it
NodeAt(t, n, dx, dy, dz) ==
    LET m == <<n[1], n[2] + dx, n[3] + dy, n[4] + dz>>
    IN IF IsNode(t, m) THEN m ELSE Null

\* a table data object before any table was set
NoTable == [offsets |-> <<>>, table |-> <<>>, count |-> 0, spans |-> <<>>, oob |-> FALSE]

NoArgs == [rootNode |-> Null, maxDepth |-> 0, threads |-> 0]

\* the boundary types of Octree::boundaryType_
BoundaryTypes == {"None", "Dirichlet", "Neumann"}

NoMul == [in |-> <<>>, out |-> <<>>, addDCTerm |-> FALSE, threads |-> 0]

\* no linear system was assembled
NoMatrix ==
    /\ boundaryType = "Neumann"
    /\ sysDepth = 0
    /\ matrix = <<>>
    /\ mul = NoMul

\* Solve before it is entered
NoCG == [pc |-> "none"]

\* no call of Solve was set up
NoBudget == [site |-> "none"]

\* LaplacianMatrixIteration before it is entered
NoCascade == [pc |-> "none"]

\* no sub-domain pass was started
NoSubPass == [pc |-> "none"]

\* the iso-surface extraction has not started
NoIso == [pc |-> "none"]

\* no corner slot was touched
NoSlots == [pc |-> "none"]

\* GetRoot was not called
NoGetRoot == [pc |-> "none"]

\* no mesh is being extracted
NoMesh == [pc |-> "none"]

\* no call of the sink is made
NoSink == [pc |-> "none"]

\* LaplacianMatrixIteration was not called
NoTwice == [pc |-> "none"]

\* setTree was not called
NoSplat == [pc |-> "none"]

\* no call of getCenterValue
NoCenterCall == [pc |-> "none"]

\* no call of GetIsoValue
NoIsoCall == [pc |-> "none"]

\* no iteration of Solve
NoResidual == [pc |-> "none"]

\* no call of Multiply
NoProduct == [pc |-> "none"]

\* no call of GetRestrictedFixedDepthLaplacian
NoRestricted == [pc |-> "none"]

\* no call of GetEdgeLoops
NoLoops == [pc |-> "none"]

\* no call of AddTriangles
NoTriangles == [pc |-> "none"]

\* no call of refineBoundary
NoRefine == [pc |-> "none"]

\* the cascade and the extraction have not started
NoStage ==
    /\ cascade = NoCascade
    /\ subPass = NoSubPass
    /\ iso = NoIso
    /\ slots = NoSlots
    /\ getRoot = NoGetRoot
    /\ mesh = NoMesh
    /\ sink = NoSink
    /\ twice = NoTwice
    /\ splat = NoSplat
    /\ centerCall = NoCenterCall
    /\ isoCall = NoIsoCall
    /\ residual = NoResidual
    /\ product = NoProduct
    /\ restricted = NoRestricted
    /\ loops = NoLoops
    /\ triangles = NoTriangles
    /\ refine = NoRefine

\* nothing was sampled or solved
NoSystem ==
    /\ sampleDepth = 0
    /\ constraints = <<>>
    /\ coefficients = <<>>
    /\ cg = NoCG
    /\ budget = NoBudget
    /\ NoStage

(***************************************************************************)
(* Building and sorting the tree.                                          *)
(***************************************************************************)
\* TreeOctNode::initChildren on the leaf n; the children are default-constructed
InitChildren(n) ==
    /\ n \notin tree
    /\ Cardinality(tree) < MaxInternal
    /\ tree' = tree \cup {n}
    /\ nodeIndex' = [m \in NodesOf(tree') |-> IF IsNode(tree, m) THEN nodeIndex[m] ELSE -1]
    /\ lastCall' = "initChildren"
    /\ UNCHANGED <<treeNodes, nodeCount, maxDepth, restVars>>

\* SortedTreeNodes::set(root)
Set ==
    /\ lastCall # "set"
    /\ maxDepth' = TreeMaxDepth(tree) + 1
    /\ treeNodes' = SetTreeNodes(tree).treeNodes
    /\ nodeCount' = SetTreeNodes(tree).nodeCount
    /\ nodeIndex' = SetNodeIndex(tree, treeNodes', nodeCount'[maxDepth'])
    /\ lastCall' = "set"
    /\ UNCHANGED <<tree, restVars>>

InitSort ==
    /\ tree = {}
    /\ nodeIndex = [n \in {Root} |-> -1]
    /\ treeNodes = <<>>
    /\ nodeCount = <<>>
    /\ maxDepth = 0
    /\ lastCall = "none"
    /\ cData = NoTable
    /\ eData = NoTable
    /\ tableArgs = NoArgs
    /\ NoMatrix
    /\ NoSystem

NextSort ==
    \/ \E n \in NodesOf(tree) : InitChildren(n)
    \/ Set

SpecSort == InitSort /\ [][NextSort]_vars

(***************************************************************************)
(* Claims about SortedTreeNodes::set.                                      *)
(***************************************************************************)
\* treeNodes[i] for the 0-based array slot i
TreeNode(i) == treeNodes[i + 1]

\* the slots of treeNodes that hold n
SlotsOf(n) == {i \in 0..(Len(treeNodes) - 1) : TreeNode(i) = n}

\* C1: after set(root) every node of the tree is at exactly one slot of
\* treeNodes, and the node at slot i < nodeCount[maxDepth] has nodeIndex i.
C1_SortedIndex ==
    lastCall = "set" =>
        /\ Len(treeNodes) = Nodes(tree)
        /\ nodeCount[maxDepth] = Nodes(tree)
        /\ \A n \in NodesOf(tree) : Cardinality(SlotsOf(n)) = 1
        /\ \A i \in 0..(nodeCount[maxDepth] - 1) : nodeIndex[TreeNode(i)] = i

\* a sorted tree three levels deep
C1_Witness ==
    /\ lastCall = "set"
    /\ Cardinality(tree) = 3
    /\ TreeMaxDepth(tree) = 3
    /\ nodeIndex[Child(Root, 7)] = 8

\* the slots of the nodes of depth d
DepthSlots(d) == nodeCount[d]..(nodeCount[d + 1] - 1)

\* whether m is n or a descendant of n
IsBelow(m, n) == Depth(m) >= Depth(n) /\ Ancestor(m, Depth(n)) = n

\* whether the set S of integers is an interval
IsInterval(S) == \A i, j \in S : \A k \in i..j : k \in S

\* C4: after set(root) the nodes of depth d fill the slots
\* [nodeCount[d], nodeCount[d+1]), the eight children of a node with children
\* fill eight consecutive slots of the next depth in child order, and the
\* descendants of a node at any one depth fill one contiguous span.
C4_DepthOrder ==
    lastCall = "set" =>
        /\ nodeCount[0] = 0
        /\ \A d \in 0..(maxDepth - 1) :
              {TreeNode(i) : i \in DepthSlots(d)} = {n \in NodesOf(tree) : Depth(n) = d}
        /\ \A i \in 0..(Len(treeNodes) - 1) :
              HasChildren(tree, TreeNode(i)) =>
                 \E j \in DepthSlots(Depth(TreeNode(i)) + 1) :
                    \A c \in 0..7 :
                       /\ j + c \in DepthSlots(Depth(TreeNode(i)) + 1)
                       /\ TreeNode(j + c) = Child(TreeNode(i), c)
        /\ \A n \in NodesOf(tree) : \A d \in Depth(n)..(maxDepth - 1) :
              IsInterval({i \in DepthSlots(d) : IsBelow(TreeNode(i), n)})

\* a sorted tree in which two nodes of depth 1 have children
C4_Witness ==
    /\ lastCall = "set"
    /\ Cardinality({n \in tree : Depth(n) = 1}) = 2
    /\ nodeCount[3] - nodeCount[2] = 16

(***************************************************************************)
(* Shared-element tables: SortedTreeNodes::setCornerTable, setEdgeTable.   *)
(***************************************************************************)
\* Cube::CORNERS, Cube::EDGES, Square::CORNERS
CubeCorners == 8

CubeEdges == 12

SquareCorners == 4

\* Cube::FactorEdgeIndex: edge index -> orientation and the two face coordinates
FactorEdgeIndex(e) == <<e \div 4, e % 2, (e \div 2) % 2>>

\* Cube::EdgeIndex
EdgeIndex(o, i, j) == 4 * o + 2 * j + i

\* Square::FactorCornerIndex, Square::CornerIndex, Square::AntipodalCornerIndex
SquareFactorCornerIndex(c) == <<c % 2, (c \div 2) % 2>>

SquareCornerIndex(x, y) == 2 * y + x

SquareAntipodalCornerIndex(c) ==
    LET f == SquareFactorCornerIndex(c) IN SquareCornerIndex(1 - f[1], 1 - f[2])

\* x >> k
ShiftRight(x, k) == x \div (2 ^ k)

\* neighbors[1 + dx][1 + dy][1 + dz] of the key that getNeighbors3(n, minDepth)
\* leaves for n's depth: the lookup does not leave the subtree of n's
\* ancestor at minDepth
KeyNeighbor(n, dx, dy, dz, minDepth) ==
    LET m == NodeAt(tree, n, dx, dy, dz)
    IN IF m # Null /\ Ancestor(m, minDepth) = Ancestor(n, minDepth) THEN m ELSE Null

\* the while loops that move start and end to nodes with children
SkipStart(start, end) ==
    CHOOSE k \in start..end :
        /\ k = end \/ HasChildren(tree, TreeNode(k))
        /\ \A j \in start..(k - 1) : ~HasChildren(tree, TreeNode(j))

SkipEnd(start, end) ==
    CHOOSE k \in start..end :
        /\ k = start \/ HasChildren(tree, TreeNode(k))
        /\ \A j \in (k + 1)..end : ~HasChildren(tree, TreeNode(j))

\* the loop that lays out the per-depth spans and offsets of the table
RECURSIVE SpanLoop(_, _, _, _, _)
SpanLoop(d, md, start, end, acc) ==
    LET acc1 == [spans |-> [acc.spans EXCEPT ![d] = <<start, end + 1>>],
                 offsets |-> [acc.offsets EXCEPT ![d] = acc.nodeCount - start],
                 nodeCount |-> acc.nodeCount + (end + 1 - start)]
        s1 == SkipStart(start, end)
        e1 == SkipEnd(s1, end)
    IN IF d >= md THEN acc1
       ELSE IF s1 = e1 /\ ~HasChildren(tree, TreeNode(s1)) THEN acc1
       ELSE SpanLoop(d + 1, md, nodeIndex[Child(TreeNode(s1), 0)],
                     nodeIndex[Child(TreeNode(e1), 7)], acc1)

\* minDepth of a table call
TableMinDepth(rootNode) ==
    IF rootNode # Null THEN Depth(rootNode)
    ELSE CHOOSE m \in 0..(maxDepth - 1) :
            /\ nodeCount[m + 1] # 0
            /\ \A k \in 0..(m - 1) : nodeCount[k + 1] = 0

\* spans, offsets and the number of table rows of a table call
TableSpans(rootNode, md) ==
    LET minDepth == TableMinDepth(rootNode)
        start == IF rootNode # Null THEN nodeIndex[rootNode] ELSE 0
        end == IF rootNode # Null THEN start ELSE nodeCount[minDepth + 1] - 1
    IN SpanLoop(minDepth, md, start, end,
                [spans |-> [d \in 0..(maxDepth - 1) |-> <<-1, -1>>],
                 offsets |-> [d \in 0..(maxDepth - 1) |-> -1],
                 nodeCount |-> 0])

\* the chunk of thread k when the slots first..second-1 are split statically
Chunk(first, second, threads, k) ==
    LET n == second - first
        size == (n + threads - 1) \div threads
        lo == first + k * size
        hi == IF lo + size < second THEN lo + size ELSE second
    IN [p \in 1..(IF hi > lo THEN hi - lo ELSE 0) |-> lo + p - 1]

RECURSIVE ConcatChunks(_, _, _, _, _)
ConcatChunks(first, second, threads, k, step) ==
    IF k < 0 \/ k >= threads THEN <<>>
    ELSE Chunk(first, second, threads, k)
         \o ConcatChunks(first, second, threads, k + step, step)

\* the threads take turns, one loop iteration each
RECURSIVE RoundRobin(_, _, _, _)
RoundRobin(first, second, threads, turn) ==
    LET n == second - first
        size == (n + threads - 1) \div threads
        k == turn % threads
        p == turn \div threads
        slot == first + k * size + p
    IN IF p >= size THEN <<>>
       ELSE (IF slot < second THEN <<slot>> ELSE <<>>)
            \o RoundRobin(first, second, threads, turn + 1)

\* an order in which a parallel loop over first..second-1 may run its iterations
VisitOrder(span, threads, sched) ==
    LET th == IF threads <= 0 THEN 1 ELSE threads
    IN IF span[2] <= span[1] THEN <<>>
       ELSE IF sched = "seq" THEN ConcatChunks(span[1], span[2], th, 0, 1)
       ELSE IF sched = "rev" THEN ConcatChunks(span[1], span[2], th, th - 1, -1)
       ELSE RoundRobin(span[1], span[2], th, 0)

Scheds == {"seq", "rev", "alt"}

\* the table row of node n: CornerTableData::operator[], EdgeTableData::operator[]
TableRow(offsets, n) == nodeIndex[n] + offsets[Depth(n)]

\* writes value into the table entries named by targets (0-based flat indices);
\* a write outside the table is undefined behaviour: it is flagged, and the
\* loops stop at the flag
WriteAll(st, targets, value) ==
    [st EXCEPT !.table = [k \in DOMAIN st.table |-> IF (k - 1) \in targets THEN value ELSE st.table[k]],
               !.oob = st.oob \/ \E k \in targets : k < 0 \/ k >= Len(st.table)]

\* the cell at position cc around corner c of node n, from the key's neighbours
CornerCell(n, c, cc, minDepth) ==
    LET f == FactorCornerIndex(c)
        g == FactorCornerIndex(cc)
    IN KeyNeighbor(n, g[1] + f[1] - 1, g[2] + f[2] - 1, g[3] + f[3] - 1, minDepth)

\* whether the cell nb of depth d lies under rootNode (the _off test)
InSubtree(nb, d, cx) ==
    \/ cx.rootNode = Null
    \/ /\ ShiftRight(nb[2], d - cx.minDepth) = cx.rootNode[2]
       /\ ShiftRight(nb[3], d - cx.minDepth) = cx.rootNode[3]
       /\ ShiftRight(nb[4], d - cx.minDepth) = cx.rootNode[4]

\* cornerOwner after the loop over the corner's cells
CornerOwner(node, c, d, cx) ==
    LET ac == AntipodalCornerIndex(c)
    IN ~\E cc \in 0..(CubeCorners - 1) :
          LET nb == CornerCell(node, c, cc, cx.minDepth)
          IN /\ nb # Null
             /\ nodeIndex[nb] # -1
             /\ cc < ac \/ (d < cx.maxDepth /\ HasChildren(tree, nb))
             /\ InSubtree(nb, d, cx)

\* the table entries the owner writes at the depth of n
CornerTargets(n, c, cx) ==
    {TableRow(cx.offsets, CornerCell(n, c, cc, cx.minDepth)) * CubeCorners
        + AntipodalCornerIndex(cc) :
        cc \in {k \in 0..(CubeCorners - 1) :
                  LET nb == CornerCell(n, c, k, cx.minDepth)
                  IN nb # Null /\ nodeIndex[nb] # -1}}

\* CornerWalk that stays at the owner's depth
CornerWalkFlat(st, n, c, myCount, cx) ==
    WriteAll(st, CornerTargets(n, c, cx), myCount)

\* the do-while loop: write the slot id at this depth, then at the parent's
\* depth as long as the parent has the corner too
RECURSIVE CornerWalk(_, _, _, _, _)
CornerWalk(st, n, c, myCount, cx) ==
    LET st1 == WriteAll(st, CornerTargets(n, c, cx), myCount)
    IN IF Depth(n) = cx.minDepth \/ n # Child(Parent(n), c) THEN st1
       ELSE CornerWalk(st1, Parent(n), c, myCount, cx)

\* the loop over the corners c, c + 1, ... of one cell
RECURSIVE CornerLoop(_, _, _, _, _)
CornerLoop(st, node, c, d, cx) ==
    IF c = CubeCorners \/ st.oob THEN st
    ELSE IF CornerOwner(node, c, d, cx)
    THEN LET myCount == TableRow(cx.offsets, node) * CubeCorners + c
             st1 == [st EXCEPT !.owned = st.owned \cup {myCount}]
         IN CornerLoop(CornerWalk(st1, node, c, myCount, cx), node, c + 1, d, cx)
    ELSE CornerLoop(st, node, c + 1, d, cx)

\* the iterations of the parallel loop of depth d in the order given
RECURSIVE CornerVisit(_, _, _, _)
CornerVisit(st, order, d, cx) ==
    IF order = <<>> \/ st.oob THEN st
    ELSE LET node == TreeNode(Head(order))
         IN CornerVisit(
               IF d < cx.maxDepth /\ HasChildren(tree, node) THEN st
               ELSE CornerLoop(st, node, 0, d, cx),
               Tail(order), d, cx)

\* the loop over the depths minDepth .. maxDepth
RECURSIVE CornerDepths(_, _, _, _, _)
CornerDepths(st, d, sp, cx, par) ==
    IF d > cx.maxDepth \/ st.oob THEN st
    ELSE CornerDepths(CornerVisit(st, VisitOrder(sp.spans[d], par.threads, par.sched), d, cx),
                      d + 1, sp, cx, par)

\* SlotId that counts from one
SlotIdFromOne(owned, k) == Cardinality({j \in owned : j <= k})

\* the slot ids: cIndices[i] = count++ for every owned slot, in slot order
SlotId(owned, k) == Cardinality({j \in owned : j < k})

\* the last loops: every table entry is replaced by the id of the slot it names
Remap(st) ==
    [k \in DOMAIN st.table |->
        IF st.table[k] < 0 THEN -1
        ELSE IF st.table[k] \in st.owned THEN SlotId(st.owned, st.table[k]) ELSE 0]

\* the CornerTableData that setCornerTable(cData, rootNode, maxDepth, threads) leaves
CornerTable(rootNode, md, par) ==
    LET sp == TableSpans(rootNode, md)
        cx == [minDepth |-> TableMinDepth(rootNode), maxDepth |-> md,
               rootNode |-> rootNode, offsets |-> sp.offsets]
        st == CornerDepths([table |-> [k \in 1..(sp.nodeCount * CubeCorners) |-> -1],
                            owned |-> {}, oob |-> FALSE],
                           cx.minDepth, sp, cx, par)
    IN [offsets |-> sp.offsets, table |-> Remap(st), count |-> Cardinality(st.owned),
        spans |-> sp.spans, oob |-> st.oob]

\* the cell at position cc around edge e of node n, from the key's neighbours
EdgeCell(n, e, cc, minDepth) ==
    LET f == FactorEdgeIndex(e)
        g == SquareFactorCornerIndex(cc)
        ii == g[1] + f[2]
        jj == g[2] + f[3]
    IN IF f[1] = 0 THEN KeyNeighbor(n, 0, ii - 1, jj - 1, minDepth)
       ELSE IF f[1] = 1 THEN KeyNeighbor(n, ii - 1, 0, jj - 1, minDepth)
       ELSE KeyNeighbor(n, ii - 1, jj - 1, 0, minDepth)

\* edgeOwner after the loop over the edge's cells
EdgeOwner(node, e, cx) ==
    LET f == FactorEdgeIndex(e)
        ac == SquareAntipodalCornerIndex(SquareCornerIndex(f[2], f[3]))
    IN ~\E cc \in 0..(SquareCorners - 1) :
          LET nb == EdgeCell(node, e, cc, cx.minDepth)
          IN nb # Null /\ nodeIndex[nb] # -1 /\ cc < ac

\* EdgeTargets that writes the local edge of position cc, not of its antipode
EdgeTargetsSame(n, e, cx) ==
    {TableRow(cx.offsets, EdgeCell(n, e, cc, cx.minDepth)) * CubeEdges
        + (LET a == SquareFactorCornerIndex(cc)
           IN EdgeIndex(FactorEdgeIndex(e)[1], a[1], a[2])) :
        cc \in {k \in 0..(SquareCorners - 1) :
                  LET nb == EdgeCell(n, e, k, cx.minDepth)
                  IN nb # Null /\ nodeIndex[nb] # -1}}

\* the table entries the owner of edge e writes
EdgeTargets(n, e, cx) ==
    {TableRow(cx.offsets, EdgeCell(n, e, cc, cx.minDepth)) * CubeEdges
        + (LET a == SquareFactorCornerIndex(SquareAntipodalCornerIndex(cc))
           IN EdgeIndex(FactorEdgeIndex(e)[1], a[1], a[2])) :
        cc \in {k \in 0..(SquareCorners - 1) :
                  LET nb == EdgeCell(n, e, k, cx.minDepth)
                  IN nb # Null /\ nodeIndex[nb] # -1}}

\* the loop over the edges e, e + 1, ... of one cell
RECURSIVE EdgeLoop(_, _, _, _)
EdgeLoop(st, node, e, cx) ==
    IF e = CubeEdges \/ st.oob THEN st
    ELSE IF EdgeOwner(node, e, cx)
    THEN LET myCount == TableRow(cx.offsets, node) * CubeEdges + e
             st1 == [st EXCEPT !.owned = st.owned \cup {myCount}]
         IN EdgeLoop(WriteAll(st1, EdgeTargets(node, e, cx), myCount), node, e + 1, cx)
    ELSE EdgeLoop(st, node, e + 1, cx)

\* the iterations of the parallel loop of one depth in the order given
RECURSIVE EdgeVisit(_, _, _)
EdgeVisit(st, order, cx) ==
    IF order = <<>> \/ st.oob THEN st
    ELSE EdgeVisit(EdgeLoop(st, TreeNode(Head(order)), 0, cx), Tail(order), cx)

\* the loop over the depths minDepth .. maxDepth
RECURSIVE EdgeDepths(_, _, _, _, _)
EdgeDepths(st, d, sp, cx, par) ==
    IF d > cx.maxDepth \/ st.oob THEN st
    ELSE EdgeDepths(EdgeVisit(st, VisitOrder(sp.spans[d], par.threads, par.sched), cx),
                    d + 1, sp, cx, par)

\* the EdgeTableData that setEdgeTable(eData, rootNode, maxDepth, threads) leaves
EdgeTable(rootNode, md, par) ==
    LET sp == TableSpans(rootNode, md)
        cx == [minDepth |-> TableMinDepth(rootNode), maxDepth |-> md,
               rootNode |-> rootNode, offsets |-> sp.offsets]
        st == EdgeDepths([table |-> [k \in 1..(sp.nodeCount * CubeEdges) |-> -1],
                          owned |-> {}, oob |-> FALSE],
                         cx.minDepth, sp, cx, par)
    IN [offsets |-> sp.offsets, table |-> Remap(st), count |-> Cardinality(st.owned),
        spans |-> sp.spans, oob |-> st.oob]

(***************************************************************************)
(* The table calls on sorted trees.                                        *)
(***************************************************************************)
\* the number of nodes with children of the trees the tables are set for
MaxTableInternal == 2

\* the number of threads of a parallel loop
MaxThreads == 2

\* the trees that k calls of initChildren can build
RECURSIVE TreesUpTo(_)
TreesUpTo(k) ==
    IF k = 0 THEN {{}}
    ELSE LET T == TreesUpTo(k - 1)
         IN T \cup UNION {{t \cup {n} : n \in NodesOf(t) \ t} : t \in T}

\* the thread counts and the visiting orders of a table call; one thread
\* has one order
Pars ==
    {p \in [threads : 0..MaxThreads, sched : Scheds] : p.threads <= 1 => p.sched = "seq"}

\* setCornerTable(cData, rootNode, md, threads); setCornerTable(cData,
\* rootNode, threads) is the call with md = maxDepth - 1.  The call sizes
\* and fills every part of cData anew, so one call per sorted tree is followed.
SetCornerTable(rootNode, md, par) ==
    /\ lastCall = "set"
    /\ cData' = CornerTable(rootNode, md, par)
    /\ tableArgs' = [rootNode |-> rootNode, maxDepth |-> md, threads |-> par.threads]
    /\ lastCall' = "setCornerTable"
    /\ UNCHANGED <<sortVars, eData, matrixVars, systemVars>>

\* setEdgeTable(eData, rootNode, md, threads) for the subtree of the corner table
SetEdgeTable(par) ==
    /\ lastCall = "setCornerTable"
    /\ eData' = EdgeTable(tableArgs.rootNode, tableArgs.maxDepth, par)
    /\ tableArgs' = [tableArgs EXCEPT !.threads = par.threads]
    /\ lastCall' = "setEdgeTable"
    /\ UNCHANGED <<sortVars, cData, matrixVars, systemVars>>

\* a sorted tree on which no table was set
InitTables ==
    /\ tree \in TreesUpTo(MaxTableInternal)
    /\ maxDepth = TreeMaxDepth(tree) + 1
    /\ treeNodes = SetTreeNodes(tree).treeNodes
    /\ nodeCount = SetTreeNodes(tree).nodeCount
    /\ nodeIndex = SetNodeIndex(tree, treeNodes, nodeCount[maxDepth])
    /\ lastCall = "set"
    /\ cData = NoTable
    /\ eData = NoTable
    /\ tableArgs = NoArgs
    /\ NoMatrix
    /\ NoSystem

NextTables ==
    \/ \E rootNode \in {Null} \cup NodesOf(tree) :
         \E md \in (IF rootNode = Null THEN 0 ELSE Depth(rootNode))..(maxDepth - 1) :
            \E par \in Pars : SetCornerTable(rootNode, md, par)
    \/ \E par \in Pars : SetEdgeTable(par)

SpecTables == InitTables /\ [][NextTables]_vars

(***************************************************************************)
(* Claims about the shared-element tables.                                 *)
(***************************************************************************)
\* the nodes of the per-depth spans of a table
CoveredNodes(tab) ==
    UNION {{TreeNode(i) : i \in tab.spans[d][1]..(tab.spans[d][2] - 1)} : d \in DOMAIN tab.spans}

\* the cells of the covered subtree that are not refined inside it
CoveredLeaves(tab) ==
    {n \in CoveredNodes(tab) : ~HasChildren(tree, n) \/ Depth(n) = tableArgs.maxDepth}

\* cornerIndices(n, c) and edgeIndices(n, e)
CornerId(n, c) == cData.table[TableRow(cData.offsets, n) * CubeCorners + c + 1]

EdgeId(n, e) == eData.table[TableRow(eData.offsets, n) * CubeEdges + e + 1]

\* the position of corner c of cell n on the grid of depth maxDepth
CornerKey(n, c) ==
    LET f == FactorCornerIndex(c)
        s == 2 ^ (maxDepth - Depth(n))
    IN <<(n[2] + f[1]) * s, (n[3] + f[2]) * s, (n[4] + f[3]) * s>>

\* depth, direction and position of edge e of cell n
EdgeKey(n, e) ==
    LET f == FactorEdgeIndex(e)
    IN IF f[1] = 0 THEN <<n[1], 0, n[2], n[3] + f[2], n[4] + f[3]>>
       ELSE IF f[1] = 1 THEN <<n[1], 1, n[2] + f[2], n[3], n[4] + f[3]>>
       ELSE <<n[1], 2, n[2] + f[2], n[3] + f[3], n[4]>>

CornerSlots(S) == S \X (0..(CubeCorners - 1))

EdgeSlots(S) == S \X (0..(CubeEdges - 1))

CornerTableSet == lastCall \in {"setCornerTable", "setEdgeTable"}

\* C2: after setCornerTable for a subtree root or for the whole tree, any two
\* leaf cells of the covered subtree that touch the same geometric corner, at
\* the same depth or at different depths, report the same id for it.
C2_CornerDedup ==
    CornerTableSet =>
        /\ ~cData.oob
        /\ \A p, q \in CornerSlots(CoveredLeaves(cData)) :
              CornerKey(p[1], p[2]) = CornerKey(q[1], q[2])
                 => CornerId(p[1], p[2]) = CornerId(q[1], q[2])

\* a subtree in which a leaf of depth 1 and a leaf of depth 2 touch the same
\* corner, with the table set by two threads
C2_Witness ==
    /\ CornerTableSet
    /\ tableArgs.threads = 2
    /\ tableArgs.maxDepth = 2
    /\ \E p, q \in CornerSlots(CoveredLeaves(cData)) :
          /\ Depth(p[1]) = 1 /\ Depth(q[1]) = 2
          /\ CornerKey(p[1], p[2]) = CornerKey(q[1], q[2])
          /\ CornerId(p[1], p[2]) = CornerId(q[1], q[2])

\* C3: the ids of both tables are dense and owned once: every entry of every
\* node of the spans, leaf or not, is in [0, count); distinct corners (edges)
\* have distinct ids; count is the number of geometric corners (edges) of the
\* covered nodes, whatever the thread count and the visiting order.
C3_DenseIds ==
    /\ CornerTableSet =>
          /\ ~cData.oob
          /\ \A k \in DOMAIN cData.table : cData.table[k] >= 0 /\ cData.table[k] < cData.count
          /\ \A p, q \in CornerSlots(CoveredNodes(cData)) :
                CornerKey(p[1], p[2]) # CornerKey(q[1], q[2])
                   => CornerId(p[1], p[2]) # CornerId(q[1], q[2])
          /\ cData.count
                = Cardinality({CornerKey(p[1], p[2]) : p \in CornerSlots(CoveredNodes(cData))})
    /\ lastCall = "setEdgeTable" =>
          /\ ~eData.oob
          /\ \A k \in DOMAIN eData.table : eData.table[k] >= 0 /\ eData.table[k] < eData.count
          /\ \A p, q \in EdgeSlots(CoveredNodes(eData)) :
                EdgeKey(p[1], p[2]) # EdgeKey(q[1], q[2])
                   => EdgeId(p[1], p[2]) # EdgeId(q[1], q[2])
          /\ eData.count
                = Cardinality({EdgeKey(p[1], p[2]) : p \in EdgeSlots(CoveredNodes(eData))})

\* both tables set for the whole tree of two levels below the root: 9 + 8 * 8
\* table rows, fewer corners than corner slots
C3_Witness ==
    /\ lastCall = "setEdgeTable"
    /\ tableArgs.rootNode = Null
    /\ tableArgs.maxDepth = 2
    /\ Len(cData.table) = 17 * CubeCorners
    /\ cData.count > 27 /\ cData.count < 17 * CubeCorners
    /\ eData.count > 54 /\ eData.count < 17 * CubeEdges

\* C5: after setEdgeTable for a subtree, any two cells of the covered subtree
\* of the same depth that share a geometric cube edge report the same id.
C5_EdgeDedup ==
    lastCall = "setEdgeTable" =>
        /\ ~eData.oob
        /\ \A p, q \in EdgeSlots(CoveredNodes(eData)) :
              EdgeKey(p[1], p[2]) = EdgeKey(q[1], q[2])
                 => EdgeId(p[1], p[2]) = EdgeId(q[1], q[2])

\* an edge in the middle of the root cube that four cells of depth 1 share
C5_Witness ==
    /\ lastCall = "setEdgeTable"
    /\ tableArgs.threads = 2
    /\ \E p \in EdgeSlots(CoveredNodes(eData)) :
          /\ Depth(p[1]) = 1
          /\ Cardinality({q \in EdgeSlots(CoveredNodes(eData)) :
                             EdgeKey(q[1], q[2]) = EdgeKey(p[1], p[2])}) = 4
          /\ \A q \in EdgeSlots(CoveredNodes(eData)) :
                EdgeKey(q[1], q[2]) = EdgeKey(p[1], p[2]) => EdgeId(q[1], q[2]) = EdgeId(p[1], p[2])

(***************************************************************************)
(* Exact arithmetic.  A value of type Real or double is the pair <<n, d>>  *)
(* of a fraction in lowest terms with d > 0; <<1, 0>> and <<-1, 0>> are    *)
(* the two infinities and <<0, 0>> is NaN.  Rounding is not modelled.      *)
(***************************************************************************)
Abs(x) == IF x < 0 THEN -x ELSE x

Sign(x) == IF x < 0 THEN -1 ELSE IF x > 0 THEN 1 ELSE 0

RECURSIVE GCD(_, _)
GCD(a, b) == IF b = 0 THEN a ELSE GCD(b, a % b)

\* the value n / d
RNorm(n, d) ==
    IF d = 0 THEN <<Sign(n), 0>>
    ELSE LET g == GCD(Abs(n), Abs(d))
         IN <<Sign(d) * (n \div g), Abs(d) \div g>>

RInt(n) == <<n, 1>>

RZero == RInt(0)

RNaN == <<0, 0>>

IsNaN(a) == a = RNaN

IsFinite(a) == a[2] # 0

RAdd(a, b) ==
    IF a = RZero THEN b
    ELSE IF b = RZero THEN a
    ELSE IF a[2] = 0 /\ b[2] = 0 THEN (IF a = b THEN a ELSE RNaN)
    ELSE LET g == GCD(a[2], b[2])
         IN IF g = 0 THEN RNorm(a[1] * b[2] + b[1] * a[2], 0)
            ELSE RNorm(a[1] * (b[2] \div g) + b[1] * (a[2] \div g), (a[2] \div g) * b[2])

RNeg(a) == <<-a[1], a[2]>>

RSub(a, b) == RAdd(a, RNeg(b))

RMul(a, b) ==
    IF a[1] = 0 \/ a[2] = 0 \/ b[1] = 0 \/ b[2] = 0 THEN RNorm(a[1] * b[1], a[2] * b[2])
    ELSE LET g == GCD(Abs(a[1]), b[2])
             h == GCD(Abs(b[1]), a[2])
         IN RNorm((a[1] \div g) * (b[1] \div h), (a[2] \div h) * (b[2] \div g))

\* 1 / b, with 1 / 0 = +infinity
RInv(b) ==
    IF b[1] = 0 THEN (IF b[2] = 0 THEN RNaN ELSE <<1, 0>>)
    ELSE RNorm(b[2] * Sign(b[1]), Abs(b[1]))

RDiv(a, b) == RMul(a, RInv(b))

\* a < b; every comparison with NaN is false
RLess(a, b) ==
    /\ ~IsNaN(a) /\ ~IsNaN(b)
    /\ IF a[2] = 0 /\ b[2] = 0 THEN a[1] < b[1] ELSE a[1] * b[2] < b[1] * a[2]

\* Vector<T2>(dim): dim zeros
ZeroVector(dim) == [i \in 1..dim |-> RZero]

\* the sum of the elements lo .. hi of v; without rounding the order of the
\* additions does not matter, and the sum is split in halves
RECURSIVE SumSeq(_, _, _)
SumSeq(v, lo, hi) ==
    IF lo > hi THEN RZero
    ELSE IF lo = hi THEN v[lo]
    ELSE LET mid == (lo + hi) \div 2
         IN RAdd(SumSeq(v, lo, mid), SumSeq(v, mid + 1, hi))

\* the sum of all elements of v
Sum(v) == SumSeq(v, 1, Len(v))

(***************************************************************************)
(* SparseSymmetricMatrix::Multiply.  A matrix is the sequence of its rows, *)
(* a row the sequence of its entries [N, Value].                           *)
(***************************************************************************)
\* ScatterEntry that applies an entry to its own row only
ScatterEntryOneWay(outs, i, e, in) ==
    [outs EXCEPT ![i + 1] = RAdd(@, RMul(e.Value, in[e.N + 1]))]

\* one entry e of row i scattered into the scratch vector outs:
\* outs[i] += e.Value * in[e.N] and outs[e.N] += e.Value * in[i], the same
\* with and without the DC term
ScatterEntry(outs, i, e, in) ==
    LET o1 == [outs EXCEPT ![i + 1] = RAdd(@, RMul(e.Value, in[e.N + 1]))]
    IN [o1 EXCEPT ![e.N + 1] = RAdd(@, RMul(e.Value, in[i + 1]))]

\* the entries lo .. hi of row i scattered in turn into outs (the first half
\* of the entries, then the second)
RECURSIVE ScatterRow(_, _, _, _, _, _)
ScatterRow(outs, i, row, in, lo, hi) ==
    IF lo > hi \/ outs = <<>> THEN outs
    ELSE IF lo = hi THEN ScatterEntry(outs, i, row[lo], in)
    ELSE LET mid == (lo + hi) \div 2
             half == ScatterRow(outs, i, row, in, lo, mid)
         IN ScatterRow(half, i, row, in, mid + 1, hi)

\* the rows chunk[lo] .. chunk[hi] of one thread scattered in turn into its
\* scratch vector
RECURSIVE ScatterRows(_, _, _, _, _, _)
ScatterRows(outs, M, in, chunk, lo, hi) ==
    IF lo > hi \/ outs = <<>> THEN outs
    ELSE IF lo = hi THEN ScatterRow(outs, chunk[lo], M[chunk[lo] + 1], in, 1, Len(M[chunk[lo] + 1]))
    ELSE LET mid == (lo + hi) \div 2
             half == ScatterRows(outs, M, in, chunk, lo, mid)
         IN ScatterRows(half, M, in, chunk, mid + 1, hi)

\* OutScratch[t] after the first loop (schedule(static))
OutScratch(M, in, threads, t) ==
    LET chunk == Chunk(0, Len(M), threads, t)
    IN ScatterRows(ZeroVector(Len(in)), M, in, chunk, 1, Len(chunk))

\* the scratch vectors of threads t..threads-1, each computed once
RECURSIVE OutScratches(_, _, _, _)
OutScratches(M, in, threads, t) ==
    IF t = threads THEN <<>>
    ELSE <<OutScratch(M, in, threads, t)>> \o OutScratches(M, in, threads, t + 1)

\* dcTerm
DCTerm(in, addDCTerm) ==
    IF addDCTerm THEN RDiv(Sum(in), RInt(Len(in))) ELSE RZero

\* out after Multiply(in, out, addDCTerm, threads)
Multiply(M, in, addDCTerm, threads) ==
    LET scratch == OutScratches(M, in, threads, 0)
        dcTerm == DCTerm(in, addDCTerm)
    IN [i \in 1..Len(in) |-> RAdd(dcTerm, Sum([t \in 1..threads |-> scratch[t][i]]))]

(***************************************************************************)
(* Assembling the Laplacian of one depth: GetFixedDepthLaplacian.          *)
(* Screening is off (constrainValues_ is false).                           *)
(***************************************************************************)
\* MATRIX_ENTRY_EPSILON
MATRIX_ENTRY_EPSILON == 0

\* the integrals of two degree-2 B-splines k cells apart: of the functions
\* (times 120) and of their derivatives (times 6)
DotVV(k) == IF Abs(k) = 0 THEN 66 ELSE IF Abs(k) = 1 THEN 26 ELSE IF Abs(k) = 2 THEN 1 ELSE 0

DotDD(k) == IF Abs(k) = 0 THEN 6 ELSE IF Abs(k) = 1 THEN -2 ELSE IF Abs(k) = 2 THEN -1 ELSE 0

\* Integrator::dot(d, off1, off2, d1, d2, childParent = false) for d1 = d2
Dot(d, off1, off2, d1, d2) == IF d1 /\ d2 THEN DotDD(off1 - off2) ELSE DotVV(off1 - off2)

\* Octree::GetLaplacian(integrator, d, off1, off2, false)
GetLaplacian(d, off1, off2) ==
    LET vv == [k \in 1..3 |-> Dot(d, off1[k], off2[k], FALSE, FALSE)]
        dd == [k \in 1..3 |-> Dot(d, off1[k], off2[k], TRUE, TRUE)]
    IN dd[1] * vv[2] * vv[3] + vv[1] * dd[2] * vv[3] + vv[1] * vv[2] * dd[3]

\* SetLaplacianStencil(depth, integrator).at(x, y, z)
LaplacianStencil(depth, x, y, z) ==
    IF depth < 2 THEN 0
    ELSE LET center == 2 ^ (depth - 1)
         IN GetLaplacian(depth, <<center, center, center>>,
                         <<x + center - 2, y + center - 2, z + center - 2>>)

\* neighbors5.neighbors[x][y][z] of getNeighbors5(node)
Neighbors5(node, x, y, z) == NodeAt(tree, node, x - 2, y - 2, z - 2)

\* Range3D::FullRange()
FullRange == [xStart |-> 0, xEnd |-> 5, yStart |-> 0, yEnd |-> 5, zStart |-> 0, zEnd |-> 5]

\* IsInsetSupported(node)
IsInsetSupported(node) ==
    LET res == 2 ^ Depth(node)
        o == 2 ^ (Depth(node) - 2)
    IN \A k \in 2..4 : node[k] >= o /\ node[k] <= res - o

\* the positions the loops of SetMatrixRow reach in symmetric mode
InLowerHalf(x, y, z) == x < 3 /\ ~(x = 2 /\ y > 2) /\ ~(x = 2 /\ y = 2 /\ z > 2)

\* the positions <<x, y, z>> the loops of SetMatrixRow visit, in loop order
RowPositions(range, symmetric) ==
    SelectSeq([p \in 1..125 |-> <<(p - 1) \div 25, ((p - 1) \div 5) % 5, (p - 1) % 5>>],
              LAMBDA q : /\ q[1] >= range.xStart /\ q[1] < range.xEnd
                         /\ q[2] >= range.yStart /\ q[2] < range.yEnd
                         /\ q[3] >= range.zStart /\ q[3] < range.zEnd
                         /\ symmetric => InLowerHalf(q[1], q[2], q[3]))

\* isInterior of SetMatrixRow
IsInterior(node) ==
    LET d == Depth(node)
        mn == IF boundaryType = "None" THEN 2 ^ (d - 2) + 2 ELSE 2
        mx == 2 ^ d - mn
    IN \A k \in 2..4 : node[k] >= mn /\ node[k] < mx

\* temp of SetMatrixRow for the neighbour at position q
EntryValue(node, q, symmetric) ==
    LET nb == Neighbors5(node, q[1], q[2], q[3])
        temp == IF IsInterior(node) THEN LaplacianStencil(Depth(node), q[1], q[2], q[3])
                ELSE GetLaplacian(Depth(node), <<node[2], node[3], node[4]>>,
                                  <<nb[2], nb[3], nb[4]>>)
    IN IF q = <<2, 2, 2>> /\ symmetric THEN RNorm(temp, 2) ELSE RInt(temp)

\* whether SetMatrixRow writes an entry for position q
EntryStored(node, q, symmetric) ==
    LET nb == Neighbors5(node, q[1], q[2], q[3])
    IN /\ nb # Null
       /\ nodeIndex[nb] >= 0
       /\ LET temp == EntryValue(node, q, symmetric)
          IN RLess(RInt(MATRIX_ENTRY_EPSILON), temp) \/ RLess(temp, RInt(-MATRIX_ENTRY_EPSILON))

\* the row SetMatrixRow(neighbors5, row, offset, integrator, stencil, range, symmetric) writes
SetMatrixRow(node, offset, range, symmetric) ==
    LET stored == SelectSeq(RowPositions(range, symmetric),
                            LAMBDA q : EntryStored(node, q, symmetric))
    IN [k \in 1..Len(stored) |->
          [N |-> nodeIndex[Neighbors5(node, stored[k][1], stored[k][2], stored[k][3])] - offset,
           Value |-> EntryValue(node, stored[k], symmetric)]]

\* insetSupported of GetFixedDepthLaplacianGeneric
InsetSupported(node) == boundaryType # "None" \/ IsInsetSupported(node)

\* the matrix GetFixedDepthLaplacian(depth, integrator, sNodes, metSolution) returns
GetFixedDepthLaplacian(depth) ==
    LET start == nodeCount[depth]
        range == nodeCount[depth + 1] - start
    IN [r \in 1..range |->
          LET i == r - 1
              node == TreeNode(i + start)
          IN IF InsetSupported(node) THEN SetMatrixRow(node, nodeCount[depth], FullRange, TRUE)
             ELSE <<[N |-> i, Value |-> RInt(1)]>>]

(***************************************************************************)
(* Assembling and applying the operator of one depth.                      *)
(***************************************************************************)
\* the number of nodes given children beyond the full depth of the tree:
\* with a fixed boundary and with a free boundary
MaxMatrixInternal == 3

MaxFreeExtra == 0

\* the tree that setFullDepth(k) builds: every node of depth < k has children
FullTree(k) ==
    IF k = 0 THEN {}
    ELSE LET W == 0..(2 ^ (k - 1) - 1)
         IN {n \in (0..(k - 1)) \X W \X W \X W :
               n[2] < 2 ^ n[1] /\ n[3] < 2 ^ n[1] /\ n[4] < 2 ^ n[1]}

\* the subsets of S of at most k elements
RECURSIVE SubsetsUpTo(_, _)
SubsetsUpTo(S, k) ==
    IF k = 0 THEN {{}}
    ELSE LET T == SubsetsUpTo(S, k - 1) IN T \cup {t \cup {n} : t \in T, n \in S}

\* minDepth_ of the smallest tree of a boundary type; the first depth solved
MinSolveDepth(bt) == IF bt = "None" THEN 2 ELSE 0

\* the trees of a boundary type: full to minDepth_, refined further
MatrixTrees(bt) ==
    IF bt = "None"
    THEN {FullTree(2) \cup S :
            S \in SubsetsUpTo({n \in NodesOf(FullTree(2)) : Depth(n) = 2}, MaxFreeExtra)}
    ELSE TreesUpTo(MaxMatrixInternal)

\* the vectors a system of dim rows is applied to
InVectors(dim) ==
    {[i \in 1..dim |-> IF i = k THEN RInt(1) ELSE RZero] : k \in 1..dim}
       \cup {[i \in 1..dim |-> RInt(1)]}

\* matrix = GetFixedDepthLaplacian(depth, ...) in SolveFixedDepthMatrix.  The
\* matrix depends on the sorted tree and the depth alone and the product on
\* the matrix and the vector alone, so one assembly per tree and one product
\* per assembly are followed.
AssembleMatrix(depth) ==
    /\ lastCall = "set"
    /\ matrix' = GetFixedDepthLaplacian(depth)
    /\ sysDepth' = depth
    /\ mul' = NoMul
    /\ lastCall' = "GetFixedDepthLaplacian"
    /\ UNCHANGED <<sortVars, tableVars, boundaryType, systemVars>>

\* matrix.Multiply(in, out, addDCTerm, threads)
MultiplyMatrix(in, addDCTerm, threads) ==
    /\ lastCall = "GetFixedDepthLaplacian"
    /\ mul' = [in |-> in, out |-> Multiply(matrix, in, addDCTerm, threads),
               addDCTerm |-> addDCTerm, threads |-> threads]
    /\ lastCall' = "Multiply"
    /\ UNCHANGED <<sortVars, tableVars, boundaryType, sysDepth, matrix, systemVars>>

\* a sorted tree of an octree with some boundary type
InitMatrix ==
    /\ boundaryType \in BoundaryTypes
    /\ tree \in MatrixTrees(boundaryType)
    /\ maxDepth = TreeMaxDepth(tree) + 1
    /\ treeNodes = SetTreeNodes(tree).treeNodes
    /\ nodeCount = SetTreeNodes(tree).nodeCount
    /\ nodeIndex = SetNodeIndex(tree, treeNodes, nodeCount[maxDepth])
    /\ lastCall = "set"
    /\ cData = NoTable
    /\ eData = NoTable
    /\ tableArgs = NoArgs
    /\ sysDepth = 0
    /\ matrix = <<>>
    /\ mul = NoMul
    /\ NoSystem

NextMatrix ==
    \/ \E depth \in MinSolveDepth(boundaryType)..(maxDepth - 1) : AssembleMatrix(depth)
    \/ \E in \in InVectors(Len(matrix)) : \E addDCTerm \in BOOLEAN :
          \E threads \in 1..MaxThreads : MultiplyMatrix(in, addDCTerm, threads)

SpecMatrix == InitMatrix /\ [][NextMatrix]_vars

(***************************************************************************)
(* Claims about the assembled operator.                                    *)
(***************************************************************************)
\* the node of row i of the system
SysNode(i) == TreeNode(i + nodeCount[sysDepth])

SysRows == 0..(Len(matrix) - 1)

\* the entries of row i that name column j
EntriesAt(i, j) == SelectSeq(matrix[i + 1], LAMBDA e : e.N = j)

\* the value row i stores for column j
Stored(i, j) == Sum([k \in 1..Len(EntriesAt(i, j)) |-> EntriesAt(i, j)[k].Value])

\* whether the nodes of rows i and j lie in each other's 5x5x5 neighbourhood
Near(i, j) == \A k \in 2..4 : Abs(SysNode(i)[k] - SysNode(j)[k]) <= 2

\* whether the node of row j comes before the node of row i when the offsets
\* are compared x first, then y, then z
SeenBelow(i, j) ==
    LET a == SysNode(j)
        b == SysNode(i)
    IN \/ a[2] < b[2]
       \/ a[2] = b[2] /\ a[3] < b[3]
       \/ a[2] = b[2] /\ a[3] = b[3] /\ a[4] < b[4]

\* the coupling of the nodes of rows i and j
Coupling(i, j) ==
    GetLaplacian(sysDepth, <<SysNode(i)[2], SysNode(i)[3], SysNode(i)[4]>>,
                 <<SysNode(j)[2], SysNode(j)[3], SysNode(j)[4]>>)

\* the operator that Multiply applies: every entry in both directions
Applied(i, j) == RAdd(Stored(i, j), Stored(j, i))

\* out[i] as the operator gives it
AppliedOut(i) ==
    RAdd(DCTerm(mul.in, mul.addDCTerm),
         Sum([j \in 1..Len(mul.in) |->
                IF mul.in[j] = RZero THEN RZero ELSE RMul(Applied(i, j - 1), mul.in[j])]))

\* the claim as stated: of two distinct rows in each other's neighbourhood,
\* exactly one stores the coupling
C6_StoredInExactlyOneRow ==
    lastCall = "GetFixedDepthLaplacian" =>
        \A i, j \in SysRows :
           (i # j /\ Near(i, j)) => Len(EntriesAt(i, j)) + Len(EntriesAt(j, i)) = 1

\* C6: the operator of one depth is symmetric.  Of two distinct rows in each
\* other's neighbourhood only the row of the node that comes later in x, y, z
\* order can store the coupling, and it stores it exactly when the value is not
\* zero and the row is set by SetMatrixRow (its node is inset-supported or the
\* boundary is not free); a row that is not set by SetMatrixRow is the single
\* entry (i, 1).  The diagonal is stored at half its value, and Multiply
\* applies every stored entry in both directions.
C6_SymmetricOperator ==
    /\ lastCall = "GetFixedDepthLaplacian" =>
          \A i, j \in SysRows :
             /\ (i # j /\ ~(Near(i, j) /\ SeenBelow(i, j))) => Len(EntriesAt(i, j)) = 0
             /\ (i # j /\ Near(i, j) /\ SeenBelow(i, j)) =>
                   IF InsetSupported(SysNode(i)) /\ Coupling(i, j) # 0
                   THEN Len(EntriesAt(i, j)) = 1 /\ Stored(i, j) = RInt(Coupling(i, j))
                   ELSE Len(EntriesAt(i, j)) = 0
             /\ i = j =>
                   IF InsetSupported(SysNode(i))
                   THEN Len(EntriesAt(i, i)) = 1 /\ RMul(RInt(2), Stored(i, i)) = RInt(Coupling(i, i))
                   ELSE matrix[i + 1] = <<[N |-> i, Value |-> RInt(1)]>>
    /\ lastCall = "Multiply" =>
          \A i \in SysRows : mul.out[i + 1] = AppliedOut(i)

\* a free-boundary system in which a row that is not inset-supported leaves a
\* coupling unstored, applied to a vector with two threads
C6_Witness ==
    /\ lastCall = "Multiply"
    /\ boundaryType = "None"
    /\ mul.threads = 2
    /\ \E i, j \in SysRows :
          /\ i # j /\ Near(i, j) /\ SeenBelow(i, j)
          /\ ~InsetSupported(SysNode(i)) /\ InsetSupported(SysNode(j))
          /\ Len(EntriesAt(i, j)) + Len(EntriesAt(j, i)) = 0
          /\ mul.in[j + 1] = RInt(1) /\ mul.out[i + 1] = DCTerm(mul.in, mul.addDCTerm)

(***************************************************************************)
(* Sampling between two depths: UpSampleGeneric, DownSample, UpSample.     *)
(* The loops over the nodes run in parallel; DownSample adds atomically    *)
(* and UpSample writes slot i only, and exact sums do not depend on the    *)
(* order, so the calls are followed in loop order.                         *)
(***************************************************************************)
\* cornerValue of UpSampleGeneric
CornerValue(bt) ==
    IF bt = "Dirichlet" THEN RNorm(1, 2) ELSE IF bt = "Neumann" THEN RInt(1) ELSE RNorm(3, 4)

\* UpSampleData(s, v1, v2)
UpSampleData(s, v1, v2) == [start |-> s, v |-> <<v1, v2>>]

\* usData[dd] of a node with offset off at depth
UsData(off, depth, bt) ==
    IF off = 0 THEN UpSampleData(1, CornerValue(bt), RZero)
    ELSE IF off + 1 = 2 ^ depth THEN UpSampleData(0, RZero, CornerValue(bt))
    ELSE IF off % 2 = 1 THEN UpSampleData(1, RNorm(3, 4), RNorm(1, 4))
    ELSE UpSampleData(0, RNorm(1, 4), RNorm(3, 4))

\* neighbors.neighbors[x][y][z] of getNeighbors3(node)
Neighbors3(node, x, y, z) == NodeAt(tree, node, x - 1, y - 1, z - 1)

\* the call func(i, node, usData, idx) for treeNodes[i] and idx = <<ii, jj, kk>>:
\* the slot i, the slot of the coarser node and the three weights
\* usData[dd].v[idx[dd]]; node is -1 when the call is not made
SampleCall(i, idx, depth, bt) ==
    LET n == TreeNode(i)
        us == <<UsData(n[2], depth, bt), UsData(n[3], depth, bt), UsData(n[4], depth, bt)>>
        node == Neighbors3(Parent(n), idx[1] + us[1].start, idx[2] + us[2].start,
                           idx[3] + us[3].start)
    IN [i |-> i,
        node |-> IF node = Null THEN -1 ELSE nodeIndex[node],
        v |-> <<us[1].v[idx[1] + 1], us[2].v[idx[2] + 1], us[3].v[idx[3] + 1]>>]

\* the calls of func that UpSampleGeneric(depth, sNodes, boundaryType, threads, func)
\* makes, in loop order
UpSampleGeneric(depth, bt) ==
    LET start == nodeCount[depth]
        count == nodeCount[depth + 1] - start
        all == [p \in 1..(8 * count) |->
                  SampleCall(start + (p - 1) \div 8,
                             <<((p - 1) % 8) \div 4, (((p - 1) % 8) \div 2) % 2, (p - 1) % 2>>,
                             depth, bt)]
    IN SelectSeq(all, LAMBDA c : c.node # -1)

\* the function DownSample hands to UpSampleGeneric
DownSampleCall(cons, c) ==
    LET cx == RMul(cons[c.i + 1], c.v[1])
        cxy == RMul(cx, c.v[2])
        cxyz == RMul(cxy, c.v[3])
    IN [cons EXCEPT ![c.node + 1] = RAdd(@, cxyz)]

\* the function UpSample hands to UpSampleGeneric
UpSampleCall(coef, c) ==
    LET dx == c.v[1]
        dxy == RMul(dx, c.v[2])
        dxyz == RMul(dxy, c.v[3])
    IN [coef EXCEPT ![c.i + 1] = RAdd(@, RMul(coef[c.node + 1], dxyz))]

\* the calls lo .. hi applied in turn to vec (the first half, then the second)
RECURSIVE ApplyCalls(_, _, _, _, _)
ApplyCalls(vec, calls, lo, hi, down) ==
    IF lo > hi \/ vec = <<>> THEN vec
    ELSE IF lo = hi
         THEN (IF down THEN DownSampleCall(vec, calls[lo]) ELSE UpSampleCall(vec, calls[lo]))
    ELSE LET mid == (lo + hi) \div 2
             half == ApplyCalls(vec, calls, lo, mid, down)
         IN ApplyCalls(half, calls, mid + 1, hi, down)

\* constraints after DownSample(depth, sNodes, constraints)
DownSample(depth, bt, cons) ==
    IF depth = 0 THEN cons
    ELSE LET calls == UpSampleGeneric(depth, bt)
         IN ApplyCalls(cons, calls, 1, Len(calls), TRUE)

\* coefficients after UpSample(depth, sNodes, coefficients)
UpSample(depth, bt, coef) ==
    IF (bt # "None" /\ depth = 0) \/ (bt = "None" /\ depth <= 2) THEN coef
    ELSE LET calls == UpSampleGeneric(depth, bt)
         IN ApplyCalls(coef, calls, 1, Len(calls), FALSE)

(***************************************************************************)
(* Sampling in SetLaplacianConstraints: the constraints of a depth go down *)
(* one depth, then the coefficients of the coarser depth come up.          *)
(***************************************************************************)
\* the number of nodes given children beyond the full depth of the tree when
\* the boundary is fixed
MaxSampleInternal == 2

\* the trees of a boundary type
SampleTrees(bt) == IF bt = "None" THEN MatrixTrees(bt) ELSE TreesUpTo(MaxSampleInternal)

\* the slots of treeNodes that hold the nodes of a depth
DepthRange(depth) ==
    IF depth < 0 THEN {} ELSE nodeCount[depth]..(nodeCount[depth + 1] - 1)

\* the vectors over all nodes that vanish outside a depth: one node set to
\* one, or all nodes of the depth set to one
DepthVectors(depth) ==
    {[k \in 1..nodeCount[maxDepth] |-> IF k - 1 = i THEN RInt(1) ELSE RZero] : i \in DepthRange(depth)}
       \cup {[k \in 1..nodeCount[maxDepth] |-> IF k - 1 \in DepthRange(depth) THEN RInt(1) ELSE RZero]}

\* the depths d of the loops of SetLaplacianConstraints
SampleDepths(bt) == (IF bt = "None" THEN 2 ELSE 0)..(maxDepth - 1)

\* DownSample(d, sNodes_, &constraints[0])
DownSampleConstraints ==
    /\ lastCall = "set"
    /\ constraints # <<>>
    /\ constraints' = DownSample(sampleDepth, boundaryType, constraints)
    /\ lastCall' = "DownSample"
    /\ UNCHANGED <<sortVars, tableVars, matrixVars, sampleDepth, coefficients, solveVars, stageVars>>

\* UpSample(d, sNodes_, &coefficients[0])
UpSampleCoefficients ==
    /\ lastCall = "DownSample"
    /\ coefficients' = UpSample(sampleDepth, boundaryType, coefficients)
    /\ lastCall' = "UpSample"
    /\ UNCHANGED <<sortVars, tableVars, matrixVars, sampleDepth, constraints, solveVars, stageVars>>

\* a sorted tree, a depth of the loops, constraints on that depth and
\* coefficients on the depth above it
InitSample ==
    /\ boundaryType \in BoundaryTypes
    /\ tree \in SampleTrees(boundaryType)
    /\ maxDepth = TreeMaxDepth(tree) + 1
    /\ treeNodes = SetTreeNodes(tree).treeNodes
    /\ nodeCount = SetTreeNodes(tree).nodeCount
    /\ nodeIndex = SetNodeIndex(tree, treeNodes, nodeCount[maxDepth])
    /\ lastCall = "set"
    /\ cData = NoTable
    /\ eData = NoTable
    /\ tableArgs = NoArgs
    /\ sysDepth = 0
    /\ matrix = <<>>
    /\ mul = NoMul
    /\ sampleDepth \in SampleDepths(boundaryType)
    /\ constraints \in DepthVectors(sampleDepth)
    /\ coefficients \in DepthVectors(sampleDepth - 1)
    /\ cg = NoCG
    /\ budget = NoBudget
    /\ NoStage

NextSample ==
    \/ DownSampleConstraints
    \/ UpSampleCoefficients

SpecSample == InitSample /\ [][NextSample]_vars

\* the inner product of u and v over the nodes of a depth
Inner(u, v, depth) ==
    LET start == IF depth < 0 THEN 0 ELSE nodeCount[depth]
    IN Sum([k \in 1..Cardinality(DepthRange(depth)) |-> RMul(u[start + k], v[start + k])])

\* C7: at every depth d of the down-sampling loop and for every boundary
\* type, DownSample(d) is the transpose of UpSample(d): for constraints c on
\* depth d and coefficients x on depth d - 1, <DownSample(c), x> over depth
\* d - 1 equals <c, UpSample(x)> over depth d
C7_Adjoint ==
    lastCall = "UpSample" =>
        Inner(constraints, coefficients, sampleDepth - 1)
            = Inner(constraints, coefficients, sampleDepth)

\* the free-boundary case of depth 2: DownSample(2) has moved a constraint of
\* depth 2 to depth 1 and UpSample(2) has returned without a change
C7_Diverges ==
    /\ lastCall = "UpSample"
    /\ boundaryType = "None"
    /\ sampleDepth = 2
    /\ Inner(constraints, coefficients, 1) = RNorm(27, 64)
    /\ Inner(constraints, coefficients, 2) = RZero

(***************************************************************************)
(* SparseSymmetricMatrix::Solve: conjugate gradients.  The parallel loops  *)
(* are reductions and element-wise updates; they are taken as one step.    *)
(***************************************************************************)
\* eps after eps *= eps when only eps is kept
SolveTolerancePlain(eps) == eps

\* eps after eps *= eps
SolveTolerance(eps) == RMul(eps, eps)

\* a stall test that never holds
StalledNever(deltaNew, eps) == FALSE

\* delta_new < eps
Stalled(deltaNew, eps) == RLess(deltaNew, eps)

\* the sum of u[i] * v[i]
DotProduct(u, v) == Sum([i \in 1..Len(u) |-> RMul(u[i], v[i])])

\* u[i] + v[i] * a for every i
AddScaled(u, v, a) == [i \in 1..Len(u) |-> RAdd(u[i], RMul(v[i], a))]

\* b[i] - r[i] for every i
Residual(b, r) == [i \in 1..Len(b) |-> RSub(b[i], r[i])]

\* the condition of the loop of Solve
SolveContinues(c) == c.ii # c.iters /\ RLess(RMul(c.eps, c.delta0), c.deltaNew)

\* Solve from its entry to the loop or to the early return
SolveEntry(c) ==
    LET eps == SolveTolerance(c.eps)
        threads == IF c.threads < 1 THEN 1 ELSE c.threads
        x == IF c.reset THEN ZeroVector(Len(c.b)) ELSE c.x
        r == Residual(c.b, Multiply(c.A, x, c.addDCTerm, threads))
        deltaNew == DotProduct(r, r)
    IN IF Stalled(deltaNew, eps)
       THEN [c EXCEPT !.pc = "done", !.eps = eps, !.threads = threads, !.x = x, !.r = r, !.d = r,
                      !.deltaNew = deltaNew, !.warned = TRUE, !.ret = 0, !.deltas = <<deltaNew>>]
       ELSE [c EXCEPT !.pc = "loop", !.eps = eps, !.threads = threads, !.x = x, !.r = r, !.d = r,
                      !.deltaNew = deltaNew, !.delta0 = deltaNew, !.ii = 0, !.deltas = <<deltaNew>>]

\* one pass through the body of the loop of Solve, ++ii included
SolveBody(c) ==
    LET q == Multiply(c.A, c.d, c.addDCTerm, c.threads)
        dDotQ == DotProduct(c.d, q)
        alpha == RDiv(c.deltaNew, dDotQ)
        deltaOld == c.deltaNew
        x1 == AddScaled(c.x, c.d, alpha)
        r == IF c.ii % 50 = 49
             THEN Residual(c.b, Multiply(c.A, x1, c.addDCTerm, c.threads))
             ELSE AddScaled(c.r, q, RNeg(alpha))
        x == IF c.ii % 50 = 49 THEN AddScaled(x1, c.d, alpha) ELSE x1
        deltaNew == DotProduct(r, r)
        beta == RDiv(deltaNew, deltaOld)
    IN [c EXCEPT !.x = x, !.r = r, !.d = AddScaled(r, c.d, beta), !.deltaNew = deltaNew,
                 !.ii = c.ii + 1, !.deltas = Append(c.deltas, deltaNew)]

(***************************************************************************)
(* Calls of Solve on systems of two rows.                                  *)
(***************************************************************************)
\* the largest stored entry of a matrix and the largest element of b and x
MaxEntry == 2

\* the largest iters
MaxIters == 3

\* the accuracies are 0, 1/2, .. , MaxEpsHalves / 2
MaxEpsHalves == 3

\* the symmetric matrix [[2a, c], [c, 2b]] as SparseSymmetricMatrix stores
\* it: the diagonal at half its value, c in row 1 only, no entry for c = 0
StoredMatrix(a, c, b) ==
    << <<[N |-> 0, Value |-> RInt(a)]>>,
       (IF c = 0 THEN <<>> ELSE <<[N |-> 0, Value |-> RInt(c)]>>) \o <<[N |-> 1, Value |-> RInt(b)]>> >>

SolveMatrices == {StoredMatrix(a, c, b) : a \in 0..MaxEntry, c \in {-1, 0, 1}, b \in 1..MaxEntry}

SolveVectors == {<<RInt(u), RInt(v)>> : u \in 0..MaxEntry, v \in 0..1}

\* Solve(A, b, iters, x, eps, reset, threads, addDCTerm) before its first line;
\* addDCTerm is false as in the sub-domain solves: with the DC term the exact
\* residuals of the second iteration leave the range of the integers
SolveCalls ==
    {[pc |-> "entry", A |-> A, b |-> b, iters |-> iters, x |-> x, xIn |-> x, eps |-> RNorm(e, 2),
      epsIn |-> RNorm(e, 2), reset |-> reset, threads |-> threads, addDCTerm |-> addDCTerm,
      r |-> <<>>, d |-> <<>>, deltaNew |-> RZero, delta0 |-> RZero, ii |-> 0, ret |-> -1,
      warned |-> FALSE, deltas |-> <<>>] :
        A \in SolveMatrices, b \in SolveVectors, iters \in 0..MaxIters,
        x \in {<<RZero, RZero>>, <<RInt(1), RZero>>}, e \in 0..MaxEpsHalves, reset \in BOOLEAN,
        threads \in {0, MaxThreads}, addDCTerm \in {FALSE}}

\* lines 90-110 of Solve
SolveEnter ==
    /\ cg.pc = "entry"
    /\ cg' = SolveEntry(cg)
    /\ lastCall' = "Solve"
    /\ UNCHANGED <<sortVars, tableVars, matrixVars, sampleVars, budget, stageVars>>

\* one iteration of the loop
SolveIterate ==
    /\ cg.pc = "loop"
    /\ SolveContinues(cg)
    /\ cg' = SolveBody(cg)
    /\ UNCHANGED <<sortVars, lastCall, tableVars, matrixVars, sampleVars, budget, stageVars>>

\* return ii
SolveReturn ==
    /\ cg.pc = "loop"
    /\ ~SolveContinues(cg)
    /\ cg' = [cg EXCEPT !.pc = "done", !.ret = cg.ii]
    /\ UNCHANGED <<sortVars, lastCall, tableVars, matrixVars, sampleVars, budget, stageVars>>

InitSolve ==
    /\ tree = {}
    /\ nodeIndex = [n \in {Root} |-> -1]
    /\ treeNodes = <<>>
    /\ nodeCount = <<>>
    /\ maxDepth = 0
    /\ lastCall = "none"
    /\ cData = NoTable
    /\ eData = NoTable
    /\ tableArgs = NoArgs
    /\ NoMatrix
    /\ sampleDepth = 0
    /\ constraints = <<>>
    /\ coefficients = <<>>
    /\ cg \in SolveCalls
    /\ budget = NoBudget
    /\ NoStage

NextSolve ==
    \/ SolveEnter
    \/ SolveIterate
    \/ SolveReturn

SpecSolve == InitSolve /\ [][NextSolve]_vars

\* the iterations performed: one delta_new is recorded on entry and one by
\* every pass through the loop
IterationsDone == Len(cg.deltas) - 1

\* whether the squared residual recorded before pass k of the loop (k = 1
\* for the initial one) is above tol times the initial one
Above(k, tol) == RLess(RMul(tol, cg.deltas[1]), cg.deltas[k])

\* the claim as stated: the loop stops as soon as the squared residual is at
\* most eps times the initial one, eps being the accuracy passed to Solve
C8_StopsAtEps ==
    (cg.pc = "done" /\ ~cg.warned) =>
        /\ cg.ret = IterationsDone /\ cg.ret <= cg.iters
        /\ \A k \in 1..cg.ret : Above(k, cg.epsIn)
        /\ cg.ret < cg.iters => ~Above(cg.ret + 1, cg.epsIn)

\* the loop runs at most iters times, only while the squared residual is above
\* eps * eps times the initial one, and the count of its passes is returned
SolveStopRule ==
    /\ cg.pc = "loop" => cg.ii = IterationsDone /\ cg.ii <= cg.iters
    /\ cg.pc = "done" =>
          /\ cg.ret = IterationsDone /\ cg.ret <= cg.iters
          /\ \A k \in 1..cg.ret : Above(k, RMul(cg.epsIn, cg.epsIn))
          /\ (cg.ret < cg.iters /\ ~cg.warned) => ~Above(cg.ret + 1, RMul(cg.epsIn, cg.epsIn))

\* the number of steps Solve can still take
SolveMeasure(c) ==
    IF c.pc = "entry" THEN c.iters + 2
    ELSE IF c.pc = "loop" THEN c.iters - c.ii + 1
    ELSE 0

\* a step of Solve lowers the measure, which never goes below zero
SolveProgress == SolveMeasure(cg') < SolveMeasure(cg) /\ SolveMeasure(cg') >= 0

\* the guards of SolveEnter, SolveIterate and SolveReturn: one of them holds
SolveCanStep ==
    \/ cg.pc = "entry"
    \/ cg.pc = "loop" /\ SolveContinues(cg)
    \/ cg.pc = "loop" /\ ~SolveContinues(cg)

\* C8: Solve always terminates: it performs at most iters iterations, stops
\* earlier as soon as the squared residual ||r||^2 is no longer above
\* eps^2 * ||r0||^2 (eps the accuracy passed to Solve, squared on entry), and
\* returns the number of iterations it performed.  Termination: until Solve
\* has returned a step is possible, and every step lowers a measure that is
\* bounded below
C8_Terminates ==
    /\ [](SolveStopRule /\ (cg.pc # "done" => SolveCanStep))
    /\ [][SolveProgress]_vars

\* Solve has stopped before its budget because the residual reached the bound
C8_Witness ==
    /\ cg.pc = "done" /\ ~cg.warned
    /\ cg.ret >= 1 /\ cg.ret < cg.iters
    /\ cg.deltas[cg.ret + 1] # RZero
    /\ IsFinite(cg.deltas[cg.ret + 1])

\* C10: when the initial squared residual is below the tolerance (the accuracy
\* squared on entry), Solve warns, returns 0 and leaves x as it was on entry
\* after the optional reset; the loop is not entered
C10_Stall ==
    (cg.pc \in {"loop", "done"} /\ RLess(cg.deltas[1], RMul(cg.epsIn, cg.epsIn))) =>
        /\ cg.pc = "done" /\ cg.warned /\ cg.ret = 0
        /\ IterationsDone = 0
        /\ cg.x = IF cg.reset THEN ZeroVector(Len(cg.b)) ELSE cg.xIn

\* a stall with a residual that is not zero and an x that was not reset
C10_Witness ==
    /\ cg.pc = "done" /\ cg.warned
    /\ cg.deltas[1] # RZero
    /\ ~cg.reset /\ cg.x = <<RInt(1), RZero>>

(***************************************************************************)
(* The iteration budget of a call of Solve in SolveFixedDepthMatrix.       *)
(***************************************************************************)
\* the largest number of rows, minIters and fixedIters
MaxRows == 130

MaxMinIters == 3

MaxFixedIters == 2

\* the largest k with k^3 <= n
FloorCubeRoot(n) == CHOOSE k \in 0..n : k * k * k <= n /\ n < (k + 1) * (k + 1) * (k + 1)

\* the smallest k with n <= k^3
CeilCubeRoot(n) == CHOOSE k \in 0..n : (k = 0 \/ (k - 1) * (k - 1) * (k - 1) < n) /\ n <= k * k * k

\* the values (int)std::pow(n, ITERATION_POWER) can take, as ceil would
PowCeil(n) == {CeilCubeRoot(n)}

\* the values (int)std::pow(n, ITERATION_POWER) can take.  ITERATION_POWER is
\* the double 1.0 / 3, which is below 1/3: the power of a cube k^3 lies just
\* below k and the rounding of pow decides between k and the double below
\* it, which the cast truncates to k - 1 (glibc: 64 -> 3, 125 -> 4, 27 -> 3);
\* pow(1, y) is 1.  Elsewhere the cast gives the floor of the cube root
PowTruncated(n) ==
    LET k == FloorCubeRoot(n)
    IN IF k * k * k = n /\ k >= 2 THEN {k - 1, k} ELSE {k}

\* std::max(a, b)
Max(a, b) == IF a < b THEN b ELSE a

\* iters of the whole-depth solve and of a sub-domain solve, pow being root
Iters(fixedIters, root, minIters) == IF fixedIters >= 0 THEN fixedIters ELSE Max(root, minIters)

\* the calls of Solve: the site, M.Rows(), minIters and fixedIters
BudgetCalls ==
    [site : {"depth", "subdomain"}, rows : 1..MaxRows, minIters : 0..MaxMinIters,
     fixedIters : -1..MaxFixedIters, iters : {-1}]

\* int iters = fixedIters >= 0 ? fixedIters : std::max((int)std::pow(...), minIters)
SetIters(root) ==
    /\ budget.site # "none"
    /\ budget.iters = -1
    /\ budget' = [budget EXCEPT !.iters = Iters(budget.fixedIters, root, budget.minIters)]
    /\ lastCall' = "iters"
    /\ UNCHANGED <<sortVars, tableVars, matrixVars, sampleVars, cg, stageVars>>

InitIters ==
    /\ tree = {}
    /\ nodeIndex = [n \in {Root} |-> -1]
    /\ treeNodes = <<>>
    /\ nodeCount = <<>>
    /\ maxDepth = 0
    /\ lastCall = "none"
    /\ cData = NoTable
    /\ eData = NoTable
    /\ tableArgs = NoArgs
    /\ NoMatrix
    /\ sampleDepth = 0
    /\ constraints = <<>>
    /\ coefficients = <<>>
    /\ cg = NoCG
    /\ budget \in BudgetCalls
    /\ NoStage

NextIters == \E root \in PowTruncated(budget.rows) : SetIters(root)

SpecIters == InitIters /\ [][NextIters]_vars

\* the claim as stated: without fixedIters the budget is max(ceil(n^(1/3)), minIters)
C9_CeilBudget ==
    lastCall = "iters" =>
        budget.iters = IF budget.fixedIters >= 0 THEN budget.fixedIters
                       ELSE Max(CeilCubeRoot(budget.rows), budget.minIters)

\* C9: with fixedIters < 0 the budget of a system of n rows is max(t, minIters)
\* at both sites, t being n^(1/3) as pow computes it in doubles, truncated: the
\* floor of the cube root, or one less when n is a cube of 2 or more and pow
\* rounds below the root; with fixedIters >= 0 the budget is fixedIters
C9_TruncatedBudget ==
    lastCall = "iters" =>
        IF budget.fixedIters >= 0 THEN budget.iters = budget.fixedIters
        ELSE \E t \in 0..budget.rows :
                /\ t * t * t <= budget.rows
                /\ budget.rows < (t + 2) * (t + 2) * (t + 2)
                /\ (t + 1) * (t + 1) * (t + 1) <= budget.rows =>
                      (budget.rows = (t + 1) * (t + 1) * (t + 1) /\ t >= 1)
                /\ budget.iters = Max(t, budget.minIters)

\* a sub-domain system of 10 rows that gets two iterations where the ceiling is three
C9_Witness ==
    /\ lastCall = "iters"
    /\ budget.site = "subdomain"
    /\ budget.fixedIters < 0 /\ budget.rows = 10 /\ budget.minIters = 1
    /\ budget.iters = 2

(***************************************************************************)
(* The multigrid cascade: Octree::LaplacianMatrixIteration and the choice  *)
(* between the two overloads of SolveFixedDepthMatrix.                     *)
(***************************************************************************)
\* the largest maxDepth handed to setTree
MaxCascadeDepth == 3

\* the largest subdivideDepth handed to LaplacianMatrixIteration
MaxSubdivide == 2

clamp(x, minVal, maxVal) == IF x < minVal THEN minVal ELSE IF x > maxVal THEN maxVal ELSE x

\* maxDepth and minDepth_ as setTree leaves them
SetTreeDepths(bt, maxDepthArg, minDepthArg) ==
    IF bt = "None"
    THEN [bt |-> bt, maxDepth |-> maxDepthArg + 1,
          minDepth_ |-> clamp(minDepthArg + 1, 2, maxDepthArg + 1)]
    ELSE [bt |-> bt, maxDepth |-> maxDepthArg, minDepth_ |-> clamp(minDepthArg, 0, maxDepthArg)]

\* a start of the loop at minDepth_, which the code does not have
StartDepthMin(bt, minDepth_) == minDepth_

\* the first depth of the loop of LaplacianMatrixIteration
StartDepth(bt, minDepth_) == IF bt = "None" THEN 2 ELSE 0

\* the overload with startingDepth is called and does not fall back to the other
UsesSubDomains(subdivideDepth, depth) == subdivideDepth > 0 /\ ~(subdivideDepth >= depth)

\* UpSampleCoarserSolution zeroes the solutions of the depth above
ClearsCoarser(bt, depth) == ~((bt # "None" /\ depth = 0) \/ (bt = "None" /\ depth <= 2))

\* the calls of LaplacianMatrixIteration: the tree is full down to minDepth_ and
\* no deeper than maxDepth, and sNodes_.maxDepth is its depth plus one
CascadeCalls ==
    { [pc |-> "call", bt |-> t.bt, maxDepth |-> t.maxDepth, minDepth_ |-> t.minDepth_,
       sMaxDepth |-> treeDepth + 1, subdivideArg |-> sub, maxSolveArg |-> ms,
       subdivideDepth |-> sub, maxSolveDepth |-> ms, d |-> 0,
       visits |-> <<>>, written |-> {}, cleared |-> {}] :
        sub \in 0..MaxSubdivide, ms \in 0..MaxCascadeDepth,
        treeDepth \in 0..(MaxCascadeDepth + 1),
        t \in { SetTreeDepths(bt, mx, mn) : bt \in BoundaryTypes, mx \in 1..MaxCascadeDepth,
                                            mn \in 0..MaxCascadeDepth } }

\* lines 1606-1616: the shift of a free boundary and the start of the loop
CascadeEnter ==
    /\ cascade.pc = "call"
    /\ cascade' = [cascade EXCEPT
            !.pc = "loop",
            !.subdivideDepth = IF boundaryType = "None" THEN @ + 1 ELSE @,
            !.maxSolveDepth = IF boundaryType = "None" THEN @ + 1 ELSE @,
            !.d = StartDepth(boundaryType, cascade.minDepth_)]
    /\ lastCall' = "LaplacianMatrixIteration"
    /\ UNCHANGED cascadeRest

\* one turn of the loop: a call of SolveFixedDepthMatrix, which ends by copying
\* the solution of the depth into the nodes
CascadeSolveDepth ==
    /\ cascade.pc = "loop"
    /\ cascade.d # cascade.sMaxDepth
    /\ LET d == cascade.d
           sub == UsesSubDomains(cascade.subdivideDepth, d)
       IN cascade' = [cascade EXCEPT
            !.visits = Append(@, [depth |-> d, subDomains |-> sub,
                                  noSolve |-> d > cascade.maxSolveDepth,
                                  written |-> cascade.written]),
            !.written = @ \cup {d},
            !.cleared = IF ~sub /\ d <= cascade.minDepth_ /\ ClearsCoarser(boundaryType, d)
                        THEN @ \cup {d - 1} ELSE @,
            !.d = d + 1]
    /\ lastCall' = "SolveFixedDepthMatrix"
    /\ UNCHANGED cascadeRest

\* the loop ends at sNodes_.maxDepth
CascadeReturn ==
    /\ cascade.pc = "loop"
    /\ cascade.d = cascade.sMaxDepth
    /\ cascade' = [cascade EXCEPT !.pc = "done"]
    /\ lastCall' = "return"
    /\ UNCHANGED cascadeRest

InitCascade ==
    /\ tree = {}
    /\ nodeIndex = [n \in {Root} |-> -1]
    /\ treeNodes = <<>>
    /\ nodeCount = <<>>
    /\ maxDepth = 0
    /\ lastCall = "none"
    /\ cData = NoTable
    /\ eData = NoTable
    /\ tableArgs = NoArgs
    /\ sysDepth = 0
    /\ matrix = <<>>
    /\ mul = NoMul
    /\ sampleDepth = 0
    /\ constraints = <<>>
    /\ coefficients = <<>>
    /\ cg = NoCG
    /\ budget = NoBudget
    /\ cascade \in CascadeCalls
    /\ subPass = NoSubPass
    /\ iso = NoIso
    /\ slots = NoSlots
    /\ getRoot = NoGetRoot
    /\ mesh = NoMesh
    /\ sink = NoSink
    /\ twice = NoTwice
    /\ splat = NoSplat
    /\ centerCall = NoCenterCall
    /\ isoCall = NoIsoCall
    /\ residual = NoResidual
    /\ product = NoProduct
    /\ restricted = NoRestricted
    /\ loops = NoLoops
    /\ triangles = NoTriangles
    /\ refine = NoRefine
    /\ boundaryType = cascade.bt
    /\ cascade.minDepth_ <= cascade.sMaxDepth - 1
    /\ cascade.sMaxDepth - 1 <= cascade.maxDepth

NextCascade ==
    \/ CascadeEnter
    \/ CascadeSolveDepth
    \/ CascadeReturn

SpecCascade == InitCascade /\ [][NextCascade]_vars

\* the depths visited so far
VisitedDepths == { cascade.visits[i].depth : i \in 1..Len(cascade.visits) }

\* the depths at which Solve was called
SolvedDepths ==
    { cascade.visits[i].depth : i \in { j \in 1..Len(cascade.visits) : ~cascade.visits[j].noSolve } }

\* the depths are visited in strictly increasing order, each once
VisitsIncrease ==
    \A i, j \in 1..Len(cascade.visits) : i < j => cascade.visits[i].depth < cascade.visits[j].depth

\* every coarser visited depth had copied its solution into the nodes
VisitsAfterCoarser ==
    \A i \in 1..Len(cascade.visits) :
        { cascade.visits[j].depth : j \in 1..(i - 1) } = cascade.visits[i].written

C12_SubDomainRule ==
    \A i \in 1..Len(cascade.visits) :
        cascade.visits[i].subDomains <=>
            (cascade.subdivideArg > 0
                /\ cascade.visits[i].depth - cascade.subdivideArg > cascade.minDepth_)

\* a free boundary and subdivideDepth = 0: depth 2 is solved by sub-domains
C12_Diverges ==
    /\ boundaryType = "None"
    /\ cascade.subdivideArg = 0
    /\ Len(cascade.visits) >= 1
    /\ cascade.visits[1].depth = 2
    /\ cascade.visits[1].subDomains
    /\ ~cascade.visits[1].noSolve

\* what the code does: sub-domains exactly at the depths above the shifted subdivideDepth
SubDomainsAsCoded ==
    \A i \in 1..Len(cascade.visits) :
        cascade.visits[i].subDomains <=>
            (cascade.visits[i].depth >
                cascade.subdivideArg + (IF boundaryType = "None" THEN 1 ELSE 0)
             /\ cascade.subdivideArg + (IF boundaryType = "None" THEN 1 ELSE 0) > 0)

\* the rule of the claim with the shifted subdivideDepth in place of the argument
SubDomainRuleShifted ==
    \A i \in 1..Len(cascade.visits) :
        cascade.visits[i].subDomains <=>
            (cascade.subdivideDepth > 0
                /\ cascade.visits[i].depth - cascade.subdivideDepth > cascade.minDepth_)

(***************************************************************************)
(* The sub-domain pass of a depth: the overload of SolveFixedDepthMatrix   *)
(* with startingDepth, its loop over the coarse roots and the write-back.  *)
(***************************************************************************)
\* the number of refined depth-1 nodes of the trees of a pass
MaxSubRefined == 3

\* the nodes of a depth that ProcessFixedDepthNodeAdjacentNodes reaches lie within
\* this many cells of the cube of the root
RingWidth == 2

\* the trees of a pass: full to minDepth_ = 2 with a free boundary, else the root
\* with some or all of its children refined
SubPassTrees(bt) ==
    IF bt = "None" THEN {FullTree(2)}
    ELSE {FullTree(2)} \cup
         ({ {Root} \cup S :
              S \in SubsetsUpTo({n \in NodesOf({Root}) : Depth(n) = 1}, MaxSubRefined) } \ {{Root}})

\* the nodes of a depth, by their slots
DepthNodes(depth) == { TreeNode(i) : i \in DepthRange(depth) }

\* a node of the depth lies within the ring of the cube of node, under one of
\* the 5x5x5 neighbours of node
InRing(node, n) ==
    LET k == 2 ^ (Depth(n) - Depth(node))
        a == Ancestor(n, Depth(node))
    IN /\ a # node
       /\ \A c \in 2..4 :
            /\ a[c] - node[c] >= -2 /\ a[c] - node[c] <= 2
            /\ n[c] >= node[c] * k - RingWidth
            /\ n[c] <= (node[c] + 1) * k - 1 + RingWidth

\* getAdjacencyCount(node, ..., depth, ...): the nodes of the depth under node
\* and those near it
Adjacencies(node, depth) ==
    { n \in DepthNodes(depth) : IsBelow(n, node) \/ InRing(node, n) }

\* a write-back into the subtree of the root alone, which the code does not have
WritesBackOwn(root, n) == Ancestor(n, Depth(root)) = root

\* a write-back without the test, which the code does not have
WritesBackAny(root, n) == TRUE

\* the test of the write-back: the ancestor of the node at the depth of the root
\* does not come before the root
WritesBack(root, n) == nodeIndex[Ancestor(n, Depth(root))] >= nodeIndex[root]

\* the depth of the coarse roots
SubRootDepth(bt, depth, startingDepth) ==
    depth - startingDepth + (IF bt = "None" THEN 1 ELSE 0)

\* the calls of the overload at the depths of the tree, startingDepth being the
\* shifted subdivideDepth, which is positive
SubPassCalls(bt) ==
    { [pc |-> "call", depth |-> depth, startingDepth |-> sd, d |-> 0, i |-> 0,
       wholeDepth |-> FALSE, writers |-> <<>>] :
        depth \in (IF bt = "None" THEN 2 ELSE 0)..2,
        sd \in (IF bt = "None" THEN 1 ELSE 1)..MaxSubdivide }

\* startingDepth >= depth: the whole-depth overload is called
SubPassWholeDepth ==
    /\ subPass.pc = "call"
    /\ subPass.startingDepth >= subPass.depth
    /\ subPass' = [subPass EXCEPT !.pc = "done", !.wholeDepth = TRUE]
    /\ lastCall' = "SolveFixedDepthMatrix"
    /\ UNCHANGED subPassRest

\* the pass is entered: the root depth d and the first root
SubPassEnter ==
    /\ subPass.pc = "call"
    /\ ~(subPass.startingDepth >= subPass.depth)
    /\ LET d == SubRootDepth(boundaryType, subPass.depth, subPass.startingDepth)
       IN subPass' = [subPass EXCEPT
            !.pc = "roots", !.d = d, !.i = nodeCount[d],
            !.writers = [k \in 1..nodeCount[maxDepth] |-> <<>>]]
    /\ lastCall' = "enter"
    /\ UNCHANGED subPassRest

\* one turn of the loop over the coarse roots: the sub-domain of treeNodes[i] is
\* collected, solved and written back; the root is skipped when it collects nothing
SubPassRoot ==
    /\ subPass.pc = "roots"
    /\ subPass.i # nodeCount[subPass.d + 1]
    /\ LET root == TreeNode(subPass.i)
           adj == Adjacencies(root, subPass.depth)
       IN subPass' = [subPass EXCEPT
            !.i = @ + 1,
            !.writers = [k \in 1..nodeCount[maxDepth] |->
                            IF TreeNode(k - 1) \in adj /\ WritesBack(root, TreeNode(k - 1))
                            THEN Append(@[k], subPass.i) ELSE @[k]]]
    /\ lastCall' = "root"
    /\ UNCHANGED subPassRest

\* the loop over the roots ends
SubPassReturn ==
    /\ subPass.pc = "roots"
    /\ subPass.i = nodeCount[subPass.d + 1]
    /\ subPass' = [subPass EXCEPT !.pc = "done"]
    /\ lastCall' = "return"
    /\ UNCHANGED subPassRest

InitSubPass ==
    /\ boundaryType \in BoundaryTypes
    /\ tree \in SubPassTrees(boundaryType)
    /\ maxDepth = TreeMaxDepth(tree) + 1
    /\ treeNodes = SetTreeNodes(tree).treeNodes
    /\ nodeCount = SetTreeNodes(tree).nodeCount
    /\ nodeIndex = SetNodeIndex(tree, treeNodes, nodeCount[maxDepth])
    /\ lastCall = "set"
    /\ cData = NoTable
    /\ eData = NoTable
    /\ tableArgs = NoArgs
    /\ sysDepth = 0
    /\ matrix = <<>>
    /\ mul = NoMul
    /\ sampleDepth = 0
    /\ constraints = <<>>
    /\ coefficients = <<>>
    /\ cg = NoCG
    /\ budget = NoBudget
    /\ cascade = NoCascade
    /\ subPass \in SubPassCalls(boundaryType)
    /\ iso = NoIso
    /\ slots = NoSlots
    /\ getRoot = NoGetRoot
    /\ mesh = NoMesh
    /\ sink = NoSink
    /\ twice = NoTwice
    /\ splat = NoSplat
    /\ centerCall = NoCenterCall
    /\ isoCall = NoIsoCall
    /\ residual = NoResidual
    /\ product = NoProduct
    /\ restricted = NoRestricted
    /\ loops = NoLoops
    /\ triangles = NoTriangles
    /\ refine = NoRefine

NextSubPass ==
    \/ SubPassWholeDepth
    \/ SubPassEnter
    \/ SubPassRoot
    \/ SubPassReturn

SpecSubPass == InitSubPass /\ [][NextSubPass]_vars

\* the slots of the roots whose sub-domain assigned the solution of slot k, in order
WritersOf(k) == subPass.writers[k + 1]

\* the claim as stated: a sub-domain writes into nodes of the depth whose index is
\* not below the root's, and no node of the depth is assigned by two sub-domains
C13_SingleAssignment ==
    subPass.pc \in {"roots", "done"} /\ ~subPass.wholeDepth =>
        \A k \in DepthRange(subPass.depth) :
            /\ \A j \in 1..Len(WritersOf(k)) : k >= WritersOf(k)[j]
            /\ Len(WritersOf(k)) <= 1

\* C13: the sub-domain of root r writes its solution into the collected nodes of
\* depth d whose ancestor at the depth of r has a sorted index >= that of r: the
\* nodes under r and the collected nodes under later roots, never a node under an
\* earlier root.  A node is assigned by every such sub-domain that collects it,
\* one after the other in the order of the roots, and the last to assign it is
\* the sub-domain of its own ancestor
C13_WriteBack ==
    subPass.pc \in {"roots", "done"} /\ ~subPass.wholeDepth =>
        /\ \A k \in 0..(nodeCount[maxDepth] - 1) :
              /\ k \notin DepthRange(subPass.depth) => WritersOf(k) = <<>>
              /\ \A j \in 1..Len(WritersOf(k)) :
                    /\ WritersOf(k)[j] \in DepthRange(subPass.d)
                    /\ WritersOf(k)[j] < subPass.i
                    /\ WritersOf(k)[j] <= nodeIndex[Ancestor(TreeNode(k), subPass.d)]
                    /\ j > 1 => WritersOf(k)[j - 1] < WritersOf(k)[j]
        /\ \A k \in DepthRange(subPass.depth) :
              \A r \in nodeCount[subPass.d]..(subPass.i - 1) :
                 (\E j \in 1..Len(WritersOf(k)) : WritersOf(k)[j] = r) <=>
                    /\ r <= nodeIndex[Ancestor(TreeNode(k), subPass.d)]
                    /\ \/ IsBelow(TreeNode(k), TreeNode(r))
                       \/ InRing(TreeNode(r), TreeNode(k))
        /\ subPass.pc = "done" =>
              \A k \in DepthRange(subPass.depth) :
                 /\ WritersOf(k) # <<>>
                 /\ WritersOf(k)[Len(WritersOf(k))] = nodeIndex[Ancestor(TreeNode(k), subPass.d)]

\* a finished pass with a Dirichlet boundary in which a node of depth 2 was
\* assigned by the sub-domain of an earlier root and then by that of its parent
C13_Witness ==
    /\ subPass.pc = "done"
    /\ ~subPass.wholeDepth
    /\ boundaryType = "Dirichlet"
    /\ subPass.depth = 2 /\ subPass.d = 1
    /\ \E k \in DepthRange(2) :
          /\ Len(WritersOf(k)) = 2
          /\ WritersOf(k)[2] = nodeIndex[Parent(TreeNode(k))]

(***************************************************************************)
(* The marching-cube indices: the parallel loop of GetMCIsoTriangles over  *)
(* the leaves of a depth and the propagation at the end of SetIsoCorners.  *)
(***************************************************************************)
\* the threads of the parallel loop
IsoThreads == 2

\* MarchingCubes::cornerMap
cornerMap == <<0, 1, 3, 2, 4, 5, 7, 6>>

\* bit b of the index x
HasBit(x, b) == (x \div (2 ^ b)) % 2 = 1

\* x | mask for a mask of at most one bit
BitOr(x, mask) ==
    IF mask = 0 THEN x
    ELSE LET b == CHOOSE k \in 0..7 : mask = 2 ^ k
         IN IF HasBit(x, b) THEN x ELSE x + mask

\* the scalar fields of the model, as the sign of value - isoValue at a corner
\* position of the grid of a depth
IsoFields == {"below", "above", "slab", "checker", "origin"}

\* the value at the corner position is below the iso-value
CornerBelow(field, pos) ==
    CASE field = "below" -> TRUE
      [] field = "above" -> FALSE
      [] field = "slab" -> pos[1] < 1
      [] field = "checker" -> (pos[1] + pos[2] + pos[3]) % 2 = 0
      [] field = "origin" -> pos = <<0, 0, 0>>

RECURSIVE SumBits(_, _, _)
\* MarchingCubes::GetIndex(cornerValues, isoValue) for the corners c..7 of a leaf
SumBits(field, leaf, c) ==
    IF c > 7 THEN 0
    ELSE LET f == FactorCornerIndex(c)
             pos == <<leaf[2] + f[1], leaf[3] + f[2], leaf[4] + f[3]>>
         IN (IF CornerBelow(field, pos) THEN 2 ^ cornerMap[c + 1] ELSE 0)
                + SumBits(field, leaf, c + 1)

GetIndex(field, leaf) == SumBits(field, leaf, 0)

\* an OR that writes back a value read when the thread took the leaf, which the
\* code does not do
OrIntoTorn(cur, seen, mcid) == BitOr(seen, mcid)

\* #pragma omp atomic: parent->nodeData.mcIndex |= mcid
OrInto(cur, seen, mcid) == BitOr(cur, mcid)

\* the leaves of a depth in the order of nextLeaf
LeafNodes(t, d) ==
    SelectSeq(SetTreeNodes(t).treeNodes, LAMBDA n : Depth(n) = d /\ n \notin t)

\* the trees of the loop and the values of minDepth_ they are full to
IsoTrees == { {Root, <<1, 0, 0, 0>>}, {Root, <<1, 0, 0, 0>>, <<2, 0, 0, 0>>},
              {Root, <<1, 1, 1, 1>>, <<2, 3, 3, 3>>} }

IdleThread == [pc |-> "idle"]

\* the loop over the depths d = maxDepth, ..., sDepth + 1 of the subtree of the
\* root (sDepth = 0), after the indices were cleared
IsoPasses ==
    { [pc |-> "loop", minDepth_ |-> md, field |-> f, d |-> 0, leafNodes |-> <<>>,
       next |-> 1, finished |-> {}, mcIndex |-> <<>>,
       thr |-> [t \in 1..IsoThreads |-> IdleThread]] :
        md \in 0..1, f \in IsoFields }

\* a thread takes the next leaf of the loop and runs SetIsoCorners up to the
\* assignment of the leaf's mcIndex
IsoSetIndex(t) ==
    /\ iso.pc = "loop"
    /\ iso.thr[t].pc = "idle"
    /\ iso.next <= Len(iso.leafNodes)
    /\ LET leaf == iso.leafNodes[iso.next]
           idx == GetIndex(iso.field, leaf)
       IN iso' = [iso EXCEPT
            !.next = @ + 1,
            !.mcIndex = [@ EXCEPT ![leaf] = idx],
            !.thr = [@ EXCEPT ![t] =
                [pc |-> "parent", leaf |-> leaf, parent |-> Parent(leaf),
                 c |-> ChildIndex(leaf), seen |-> iso.mcIndex,
                 mcid |-> IF HasBit(idx, cornerMap[ChildIndex(leaf) + 1])
                          THEN 2 ^ cornerMap[ChildIndex(leaf) + 1] ELSE 0]]]
    /\ lastCall' = "SetIsoCorners"
    /\ UNCHANGED isoRest

\* if(mcid): the bit is ORed into the parent; else the call is over
IsoOrParent(t) ==
    /\ iso.pc = "loop"
    /\ iso.thr[t].pc = "parent"
    /\ LET th == iso.thr[t]
       IN IF th.mcid # 0
          THEN iso' = [iso EXCEPT
                 !.mcIndex = [@ EXCEPT ![th.parent] =
                                 OrInto(@, th.seen[th.parent], th.mcid)],
                 !.thr = [@ EXCEPT ![t] = [th EXCEPT !.pc = "up"]]]
          ELSE iso' = [iso EXCEPT
                 !.finished = @ \cup {th.leaf},
                 !.thr = [@ EXCEPT ![t] = IdleThread]]
    /\ lastCall' = "parent"
    /\ UNCHANGED isoRest

\* one turn of while(1): the bit is ORed into the grandparent if it is at
\* minDepth_ or deeper and the parent is its child c; else the call is over
IsoOrUp(t) ==
    /\ iso.pc = "loop"
    /\ iso.thr[t].pc = "up"
    /\ LET th == iso.thr[t]
       IN IF /\ th.parent # Root
             /\ Depth(Parent(th.parent)) >= iso.minDepth_
             /\ ChildIndex(th.parent) = th.c
          THEN iso' = [iso EXCEPT
                 !.mcIndex = [@ EXCEPT ![Parent(th.parent)] =
                                 OrInto(@, th.seen[Parent(th.parent)], th.mcid)],
                 !.thr = [@ EXCEPT ![t] = [th EXCEPT !.parent = Parent(th.parent)]]]
          ELSE iso' = [iso EXCEPT
                 !.finished = @ \cup {th.leaf},
                 !.thr = [@ EXCEPT ![t] = IdleThread]]
    /\ lastCall' = "up"
    /\ UNCHANGED isoRest

\* the end of the parallel loop of a depth: the next depth, or the end of the pass
IsoNextDepth ==
    /\ iso.pc = "loop"
    /\ iso.next > Len(iso.leafNodes)
    /\ \A t \in 1..IsoThreads : iso.thr[t].pc = "idle"
    /\ IF iso.d > 1
       THEN iso' = [iso EXCEPT !.d = @ - 1, !.next = 1,
                               !.leafNodes = LeafNodes(tree, iso.d - 1)]
       ELSE iso' = [iso EXCEPT !.pc = "done"]
    /\ lastCall' = "depth"
    /\ UNCHANGED isoRest

InitIso ==
    /\ boundaryType = "Neumann"
    /\ tree \in IsoTrees
    /\ maxDepth = TreeMaxDepth(tree) + 1
    /\ treeNodes = SetTreeNodes(tree).treeNodes
    /\ nodeCount = SetTreeNodes(tree).nodeCount
    /\ nodeIndex = SetNodeIndex(tree, treeNodes, nodeCount[maxDepth])
    /\ lastCall = "set"
    /\ cData = NoTable
    /\ eData = NoTable
    /\ tableArgs = NoArgs
    /\ sysDepth = 0
    /\ matrix = <<>>
    /\ mul = NoMul
    /\ sampleDepth = 0
    /\ constraints = <<>>
    /\ coefficients = <<>>
    /\ cg = NoCG
    /\ budget = NoBudget
    /\ cascade = NoCascade
    /\ subPass = NoSubPass
    /\ \E p \in IsoPasses :
          iso = [p EXCEPT !.d = maxDepth - 1,
                          !.leafNodes = LeafNodes(tree, maxDepth - 1),
                          !.mcIndex = [n \in NodesOf(tree) |-> 0]]
    /\ slots = NoSlots
    /\ getRoot = NoGetRoot
    /\ mesh = NoMesh
    /\ sink = NoSink
    /\ twice = NoTwice
    /\ splat = NoSplat
    /\ centerCall = NoCenterCall
    /\ isoCall = NoIsoCall
    /\ residual = NoResidual
    /\ product = NoProduct
    /\ restricted = NoRestricted
    /\ loops = NoLoops
    /\ triangles = NoTriangles
    /\ refine = NoRefine

NextIso ==
    \/ \E t \in 1..IsoThreads : IsoSetIndex(t)
    \/ \E t \in 1..IsoThreads : IsoOrParent(t)
    \/ \E t \in 1..IsoThreads : IsoOrUp(t)
    \/ IsoNextDepth

SpecIso == InitIso /\ [][NextIso]_vars

RECURSIVE ChildChain(_, _)
\* the ancestors of n along the maximal chain in which each node, n included,
\* is child c of its parent
ChildChain(n, c) ==
    IF n = Root \/ ChildIndex(n) # c THEN {} ELSE {Parent(n)} \cup ChildChain(Parent(n), c)

RECURSIVE CodedChain(_, _, _)
\* the ancestors the loop of SetIsoCorners reaches from the parent p of a leaf
\* that is child c: the chain stops below minDepth_
CodedChain(p, c, md) ==
    {p} \cup (IF p # Root /\ ChildIndex(p) = c /\ Depth(Parent(p)) >= md
              THEN CodedChain(Parent(p), c, md) ELSE {})

CornerSlot(leaf, c) ==
    LET f == FactorCornerIndex(c)
    IN <<leaf[2] + f[1], leaf[3] + f[2], leaf[4] + f[3]>>

\* the corner slots of the pass
CornerSlots1 == (0..2) \X (0..2) \X (0..2)

\* MarchingCubes::HasRoots(mcIndex): the corners of the leaf are not all on one side
HasRoots(field, leaf) == GetIndex(field, leaf) \notin {0, 255}

\* the corners of the interior x-edge of a leaf of depth 1: IsBoundaryEdge is
\* false for the edge with idx1 = idx2 = 1
InteriorEdgeCorners(leaf) ==
    <<CornerIndex(0, 1 - leaf[3], 1 - leaf[4]), CornerIndex(1, 1 - leaf[3], 1 - leaf[4])>>

\* the thread moves to the next corner, or to SetMCRootPositions after the last
AfterCorner(th) ==
    IF th.c < 7 THEN [th EXCEPT !.pc = "check", !.c = @ + 1]
    ELSE [th EXCEPT !.pc = "edge"]

SlotPasses ==
    { [pc |-> "loop", field |-> "slab", leafNodes |-> LeafNodes({Root}, 1), next |-> 1,
       valuesSet |-> {}, normalsSet |-> {}, edgesSet |-> FALSE,
       valueStores |-> [v \in CornerSlots1 |-> 0], lateStores |-> {},
       normalStores |-> [v \in CornerSlots1 |-> 0], normalUnset |-> {},
       thr |-> [t \in 1..IsoThreads |-> IdleThread]] }

\* a thread takes the next leaf of the loop and enters SetIsoCorners
SlotTake(t) ==
    /\ slots.pc = "loop"
    /\ slots.thr[t].pc = "idle"
    /\ slots.next <= Len(slots.leafNodes)
    /\ slots' = [slots EXCEPT
            !.next = @ + 1,
            !.thr = [@ EXCEPT ![t] = [pc |-> "check", leaf |-> slots.leafNodes[slots.next],
                                      c |-> 0, have |-> <<FALSE, FALSE>>]]]
    /\ lastCall' = "SetIsoCorners"
    /\ UNCHANGED slotsRest

\* if(valuesSet[vIndex]) cornerValues[c] = values[vIndex]; else the value is
\* computed: no lock or atomic guards the read, whatever the other threads do
SlotCheck(t) ==
    /\ slots.pc = "loop"
    /\ slots.thr[t].pc = "check"
    /\ LET th == slots.thr[t]
       IN slots' = [slots EXCEPT !.thr = [@ EXCEPT ![t] =
                IF CornerSlot(th.leaf, th.c) \in slots.valuesSet
                THEN AfterCorner(th) ELSE [th EXCEPT !.pc = "store"]]]
    /\ lastCall' = "check"
    /\ UNCHANGED slotsRest

\* getCornerValue, values[vIndex] = cornerValues[c] and valuesSet[vIndex] = 1
SlotStore(t) ==
    /\ slots.pc = "loop"
    /\ slots.thr[t].pc = "store"
    /\ LET th == slots.thr[t]
           v == CornerSlot(th.leaf, th.c)
       IN slots' = [slots EXCEPT
            !.valuesSet = @ \cup {v},
            !.valueStores = [@ EXCEPT ![v] = @ + 1],
            !.lateStores = IF v \in slots.valuesSet THEN @ \cup {v} ELSE @,
            !.thr = [@ EXCEPT ![t] = AfterCorner(th)]]
    /\ lastCall' = "store"
    /\ UNCHANGED slotsRest

\* SetMCRootPositions on the interior edge: nothing to do without roots or when
\* edgesSet holds, else GetRoot reads cornerNormalsSet of the two corners
SlotEdge(t) ==
    /\ slots.pc = "loop"
    /\ slots.thr[t].pc = "edge"
    /\ LET th == slots.thr[t]
           cs == InteriorEdgeCorners(th.leaf)
       IN slots' = [slots EXCEPT !.thr = [@ EXCEPT ![t] =
                IF ~HasRoots(slots.field, th.leaf) \/ slots.edgesSet THEN IdleThread
                ELSE [th EXCEPT !.pc = "normals",
                                !.have = <<CornerSlot(th.leaf, cs[1]) \in slots.normalsSet,
                                           CornerSlot(th.leaf, cs[2]) \in slots.normalsSet>>]]]
    /\ lastCall' = "GetRoot"
    /\ UNCHANGED slotsRest

\* getCornerNormal for the corners without a normal, then cornerNormals and
\* cornerNormalsSet are written
SlotNormals(t) ==
    /\ slots.pc = "loop"
    /\ slots.thr[t].pc = "normals"
    /\ LET th == slots.thr[t]
           cs == InteriorEdgeCorners(th.leaf)
           new == { CornerSlot(th.leaf, cs[k]) : k \in {j \in 1..2 : ~th.have[j]} }
       IN slots' = [slots EXCEPT
            !.normalsSet = @ \cup new,
            !.normalStores = [v \in CornerSlots1 |-> IF v \in new THEN @[v] + 1 ELSE @[v]],
            !.normalUnset = @ \cup (new \ slots.valuesSet),
            !.thr = [@ EXCEPT ![t] = [th EXCEPT !.pc = "add"]]]
    /\ lastCall' = "normals"
    /\ UNCHANGED slotsRest

\* the critical section add_point_access: the root is added unless edgesSet holds
SlotAddPoint(t) ==
    /\ slots.pc = "loop"
    /\ slots.thr[t].pc = "add"
    /\ slots' = [slots EXCEPT !.edgesSet = TRUE, !.thr = [@ EXCEPT ![t] = IdleThread]]
    /\ lastCall' = "add"
    /\ UNCHANGED slotsRest

\* the end of the parallel loop
SlotJoin ==
    /\ slots.pc = "loop"
    /\ slots.next > Len(slots.leafNodes)
    /\ \A t \in 1..IsoThreads : slots.thr[t].pc = "idle"
    /\ slots' = [slots EXCEPT !.pc = "done"]
    /\ lastCall' = "join"
    /\ UNCHANGED slotsRest

InitSlots ==
    /\ boundaryType = "Neumann"
    /\ tree = {Root}
    /\ maxDepth = TreeMaxDepth(tree) + 1
    /\ treeNodes = SetTreeNodes(tree).treeNodes
    /\ nodeCount = SetTreeNodes(tree).nodeCount
    /\ nodeIndex = SetNodeIndex(tree, treeNodes, nodeCount[maxDepth])
    /\ lastCall = "set"
    /\ cData = NoTable
    /\ eData = NoTable
    /\ tableArgs = NoArgs
    /\ sysDepth = 0
    /\ matrix = <<>>
    /\ mul = NoMul
    /\ sampleDepth = 0
    /\ constraints = <<>>
    /\ coefficients = <<>>
    /\ cg = NoCG
    /\ budget = NoBudget
    /\ cascade = NoCascade
    /\ subPass = NoSubPass
    /\ iso = NoIso
    /\ slots \in SlotPasses
    /\ getRoot = NoGetRoot
    /\ mesh = NoMesh
    /\ sink = NoSink
    /\ twice = NoTwice
    /\ splat = NoSplat
    /\ centerCall = NoCenterCall
    /\ isoCall = NoIsoCall
    /\ residual = NoResidual
    /\ product = NoProduct
    /\ restricted = NoRestricted
    /\ loops = NoLoops
    /\ triangles = NoTriangles
    /\ refine = NoRefine

NextSlots ==
    \/ \E t \in 1..IsoThreads : SlotTake(t)
    \/ \E t \in 1..IsoThreads : SlotCheck(t)
    \/ \E t \in 1..IsoThreads : SlotStore(t)
    \/ \E t \in 1..IsoThreads : SlotEdge(t)
    \/ \E t \in 1..IsoThreads : SlotNormals(t)
    \/ \E t \in 1..IsoThreads : SlotAddPoint(t)
    \/ SlotJoin

SpecSlots == InitSlots /\ [][NextSlots]_vars

\* C15: within a pass a corner slot only moves unset -> value-set -> normal-set,
\* its value is computed at most once and never written again once set, also
\* with leaves that share it on different threads, and a normal is computed only
\* for a slot whose value is set (the claim as stated)
C15_SlotOnce ==
    slots.pc \in {"loop", "done"} =>
        /\ slots.normalsSet \subseteq slots.valuesSet
        /\ slots.normalUnset = {}
        /\ \A v \in CornerSlots1 : slots.valueStores[v] <= 1
        /\ slots.lateStores = {}

\* the value of the corner at the centre of the cube was computed and stored
\* twice, the second time into a slot that was set
C15_Diverges ==
    /\ slots.pc = "loop"
    /\ slots.valueStores[<<1, 1, 1>>] = 2
    /\ <<1, 1, 1>> \in slots.lateStores

\* what holds of the slots in every interleaving
SlotsForward ==
    slots.pc \in {"loop", "done"} =>
        /\ slots.normalsSet \subseteq slots.valuesSet
        /\ slots.normalUnset = {}
        /\ \A v \in CornerSlots1 : slots.valueStores[v] <= IsoThreads
        /\ slots.pc = "done" => slots.valuesSet = CornerSlots1

(***************************************************************************)
(* GetRoot: the vertex on a cube edge.  The values are exact rationals     *)
(* with the two infinities and NaN of the doubles the code computes with;  *)
(* a comparison with NaN is false.  The corner values of the node decide   *)
(* its mcIndex; on a boundary edge the values GetRoot works with are those *)
(* of rootData.boundaryValues when the key is there, stored by the call of *)
(* another leaf.  Only the component n[k][o] of the normals is used.       *)
(***************************************************************************)
\* the corner values and normals of the calls are the integers -1..MaxRootValue
MaxRootValue == 1

\* a <= b on doubles
RLeq(a, b) == ~IsNaN(a) /\ ~IsNaN(b) /\ (a = b \/ RLess(a, b))

\* the integer square root of a perfect square
ISqrt(k) == CHOOSE r \in 0..k : r * r = k

IsSquare(k) == \E r \in 0..k : r * r = k

\* sqrt has an exact value: NaN, +inf, or a ratio of perfect squares
HasSqrt(a) == IsNaN(a) \/ a = <<1, 0>> \/ (a[2] > 0 /\ a[1] >= 0 /\ IsSquare(a[1]) /\ IsSquare(a[2]))

\* sqrt of a double that is not negative
RSqrt(a) ==
    IF IsNaN(a) \/ a = <<1, 0>> THEN a ELSE <<ISqrt(a[1]), ISqrt(a[2])>>

\* Cube::EdgeCorners: the two ends of an edge, the first at coordinate 0 of its axis
EdgeCorners(edgeIndex) ==
    LET f == FactorEdgeIndex(edgeIndex)
    IN CASE f[1] = 0 -> <<CornerIndex(0, f[2], f[3]), CornerIndex(1, f[2], f[3])>>
         [] f[1] = 1 -> <<CornerIndex(f[2], 0, f[3]), CornerIndex(f[2], 1, f[3])>>
         [] OTHER    -> <<CornerIndex(f[2], f[3], 0), CornerIndex(f[2], f[3], 1)>>

\* MarchingCubes::HasEdgeRoots: the bits of the two ends of the edge differ
HasEdgeRoots(below1, below2) == below1 # below2

\* Polynomial<2>::getSolutions(c, EPSILON): the real roots of
\* a2 t^2 + a1 t + a0 = 0, a double root twice
getSolutions(a2, a1, a0) ==
    IF a2 = RZero
    THEN IF a1 = RZero THEN <<>> ELSE <<RDiv(RNeg(a0), a1)>>
    ELSE LET disc == RSub(RMul(a1, a1), RMul(RInt(4), RMul(a0, a2)))
             sq == RSqrt(disc)
             den == RMul(RInt(2), a2)
         IN IF RLess(disc, RZero) THEN <<>>
            ELSE <<RDiv(RSub(RNeg(a1), sq), den), RDiv(RAdd(RNeg(a1), sq), den)>>

\* the Hermite spline of GetRoot as a quadratic: coefficients[0..2]
HermiteCoefficients(x0, x1, d0, d1) ==
    LET scl == RDiv(RSub(x1, x0), RDiv(RAdd(d1, d0), RInt(2)))
        dx0 == RMul(d0, scl)
        dx1 == RMul(d1, scl)
    IN <<x0, dx0,
         RSub(RSub(RMul(RInt(3), RSub(x1, x0)), dx1), RMul(RInt(2), dx0))>>

\* the discriminant of P - isoValue
RootDiscriminant(x0, x1, d0, d1, isoValue) ==
    LET P == HermiteCoefficients(x0, x1, d0, d1)
    IN RSub(RMul(P[2], P[2]), RMul(RInt(4), RMul(RSub(P[1], isoValue), P[3])))

\* the sum and the count of the roots within [0,1]
RootsInUnit(roots) ==
    LET in == { i \in 1..Len(roots) : RLeq(RZero, roots[i]) /\ RLeq(roots[i], RInt(1)) }
    IN [rCount |-> Cardinality(in),
        sum |-> IF in = {} THEN RZero
                ELSE IF Cardinality(in) = 1 THEN roots[CHOOSE i \in in : TRUE]
                ELSE RAdd(roots[1], roots[2])]

\* averageRoot < 0 || averageRoot > 1
OutOfUnit(t) == RLess(t, RZero) \/ RLess(RInt(1), t)

\* clamp(averageRoot, 0, 1): a NaN is neither below 0 nor above 1
clampReal(t) ==
    IF RLess(t, RZero) THEN RZero ELSE IF RLess(RInt(1), t) THEN RInt(1) ELSE t

\* averageRoot of GetRoot
AverageRoot(x0, x1, d0, d1, isoValue, nonLinearFit) ==
    LET P == HermiteCoefficients(x0, x1, d0, d1)
        in == RootsInUnit(getSolutions(P[3], P[2], RSub(P[1], isoValue)))
        t == IF in.rCount > 0 /\ nonLinearFit THEN RDiv(in.sum, RInt(in.rCount))
             ELSE RDiv(RSub(x0, isoValue), RSub(x0, x1))
    IN IF OutOfUnit(t) THEN clampReal(t) ELSE t

\* OctNode::centerAndWidth
NodeWidth(node) == <<1, 2 ^ Depth(node)>>

NodeCenter(node) ==
    [a \in 1..3 |-> RMul(RAdd(RInt(node[a + 1]), <<1, 2>>), NodeWidth(node))]

\* position of GetRoot
RootPosition(node, edgeIndex, averageRoot) ==
    LET f == FactorEdgeIndex(edgeIndex)
        c == NodeCenter(node)
        width == NodeWidth(node)
        half == RDiv(width, RInt(2))
        at(a, i) == RAdd(RSub(c[a], half), RMul(width, i))
        i1 == RInt(f[2])
        i2 == RInt(f[3])
    IN CASE f[1] = 0 -> <<at(1, averageRoot), at(2, i1), at(3, i2)>>
         [] f[1] = 1 -> <<at(1, i1), at(2, averageRoot), at(3, i2)>>
         [] OTHER    -> <<at(1, i1), at(2, i2), at(3, averageRoot)>>

RootValues == { RInt(k) : k \in -1..MaxRootValue }

\* the node of the calls
RootNodes == { <<2, 1, 2, 3>> }

\* isBoundary, haveKey1, haveKey2 and the values boundaryValues holds for the
\* keys that are found; for a key that is not found, the value of the node
BoundaryCases(v1, v2) ==
    { <<FALSE, FALSE, FALSE, v1, v2>>, <<TRUE, FALSE, FALSE, v1, v2>> }
        \cup { <<TRUE, TRUE, FALSE, h1, v2>> : h1 \in RootValues }
        \cup { <<TRUE, FALSE, TRUE, v1, h2>> : h2 \in RootValues }
        \cup { <<TRUE, TRUE, TRUE, h[1], h[2]>> : h \in RootValues \X RootValues }

\* a call of GetRoot: value and normal of the two corners of the node, and
\* what boundaryValues holds for the keys found in it
GetRootCall(node, e, isoValue, v, d, b, fit) ==
    [pc |-> "call", node |-> node, edgeIndex |-> e, isoValue |-> isoValue,
     cornerValues |-> v, normals |-> d,
     isBoundary |-> b[1], haveKey1 |-> b[2], haveKey2 |-> b[3],
     boundaryValues |-> <<b[4], b[5]>>, nonLinearFit |-> fit]

\* keyValue1.first and keyValue2.first
KeyValues(call) ==
    <<IF call.isBoundary /\ call.haveKey1 THEN call.boundaryValues[1] ELSE call.cornerValues[1],
      IF call.isBoundary /\ call.haveKey2 THEN call.boundaryValues[2] ELSE call.cornerValues[2]>>

\* the square root of the call is exact
Representable(call) ==
    LET x == KeyValues(call)
        w == NodeWidth(call.node)
        disc == RootDiscriminant(x[1], x[2], RMul(call.normals[1], w), RMul(call.normals[2], w),
                                 call.isoValue)
    IN HasSqrt(disc) \/ RLess(disc, RZero)

\* GetRoot
GetRoot ==
    /\ getRoot.pc = "call"
    /\ LET below1 == RLess(getRoot.cornerValues[1], getRoot.isoValue)
           below2 == RLess(getRoot.cornerValues[2], getRoot.isoValue)
           x == KeyValues(getRoot)
           width == NodeWidth(getRoot.node)
           averageRoot == AverageRoot(x[1], x[2], RMul(getRoot.normals[1], width),
                                      RMul(getRoot.normals[2], width), getRoot.isoValue,
                                      getRoot.nonLinearFit)
       IN IF ~HasEdgeRoots(below1, below2)
          THEN getRoot' = [pc |-> "done", ret |-> 0, call |-> getRoot]
          ELSE getRoot' = [pc |-> "done", ret |-> 1, call |-> getRoot, x0 |-> x[1], x1 |-> x[2],
                           averageRoot |-> averageRoot,
                           point |-> RootPosition(getRoot.node, getRoot.edgeIndex, averageRoot)]
    /\ lastCall' = "GetRoot"
    /\ UNCHANGED getRootRest

InitGetRoot ==
    /\ boundaryType = "Dirichlet"
    /\ tree = {Root}
    /\ maxDepth = TreeMaxDepth(tree) + 1
    /\ treeNodes = SetTreeNodes(tree).treeNodes
    /\ nodeCount = SetTreeNodes(tree).nodeCount
    /\ nodeIndex = SetNodeIndex(tree, treeNodes, nodeCount[maxDepth])
    /\ lastCall = "set"
    /\ cData = NoTable
    /\ eData = NoTable
    /\ tableArgs = NoArgs
    /\ sysDepth = 0
    /\ matrix = <<>>
    /\ mul = NoMul
    /\ sampleDepth = 0
    /\ constraints = <<>>
    /\ coefficients = <<>>
    /\ cg = NoCG
    /\ budget = NoBudget
    /\ cascade = NoCascade
    /\ subPass = NoSubPass
    /\ iso = NoIso
    /\ slots = NoSlots
    /\ \E node \in RootNodes, e \in 0..(CubeEdges - 1), isoValue \in { RZero, <<1, 2>> },
          v \in RootValues \X RootValues, d \in RootValues \X RootValues, fit \in BOOLEAN :
            \E b \in BoundaryCases(v[1], v[2]) :
                /\ Representable(GetRootCall(node, e, isoValue, v, d, b, fit))
                /\ getRoot = GetRootCall(node, e, isoValue, v, d, b, fit)
    /\ mesh = NoMesh
    /\ sink = NoSink
    /\ twice = NoTwice
    /\ splat = NoSplat
    /\ centerCall = NoCenterCall
    /\ isoCall = NoIsoCall
    /\ residual = NoResidual
    /\ product = NoProduct
    /\ restricted = NoRestricted
    /\ loops = NoLoops
    /\ triangles = NoTriangles
    /\ refine = NoRefine

NextGetRoot == GetRoot

SpecGetRoot == InitGetRoot /\ [][NextGetRoot]_vars

\* the point of the edge at parameter t: the corner of the node nearest the
\* origin, moved by t along the axis of the edge and by the face coordinates of
\* the edge along the two others
EdgePoint(node, edgeIndex, t) ==
    LET f == FactorEdgeIndex(edgeIndex)
        w == NodeWidth(node)
        p(a, i) == RMul(RAdd(RInt(node[a + 1]), i), w)
    IN CASE f[1] = 0 -> <<p(1, t), p(2, RInt(f[2])), p(3, RInt(f[3]))>>
         [] f[1] = 1 -> <<p(1, RInt(f[2])), p(2, t), p(3, RInt(f[3]))>>
         [] OTHER    -> <<p(1, RInt(f[2])), p(2, RInt(f[3])), p(3, t)>>

\* the vertex is the point of its edge at a parameter within [0,1]
OnEdge(r) ==
    /\ RLeq(RZero, r.averageRoot)
    /\ RLeq(r.averageRoot, RInt(1))
    /\ r.point = EdgePoint(r.call.node, r.call.edgeIndex, r.averageRoot)

\* C16: every vertex produced by GetRoot lies on its cube edge: the parameter
\* that places it along the edge is within [0,1] for every pair of corner
\* values and gradients, with linear and with non-linear fit, and the two
\* other coordinates are those of the edge.
C16_OnEdge ==
    (getRoot.pc = "done" /\ getRoot.ret = 1) => OnEdge(getRoot)

\* a vertex was produced from two equal values on the iso-surface, read from
\* boundaryValues: its parameter is NaN and was not clamped
C16_Diverges ==
    /\ getRoot.pc = "done"
    /\ getRoot.ret = 1
    /\ getRoot.call.isBoundary
    /\ getRoot.x0 = getRoot.x1
    /\ getRoot.x0 = getRoot.call.isoValue
    /\ IsNaN(getRoot.averageRoot)

\* a vertex whose parameter is not NaN lies on its edge
OnEdgeUnlessNaN ==
    (getRoot.pc = "done" /\ getRoot.ret = 1 /\ ~IsNaN(getRoot.averageRoot)) => OnEdge(getRoot)

\* a vertex made from the values of the node itself lies on its edge
OnEdgeOwnValues ==
    (getRoot.pc = "done" /\ getRoot.ret = 1
        /\ ~(getRoot.call.isBoundary /\ (getRoot.call.haveKey1 \/ getRoot.call.haveKey2)))
        => OnEdge(getRoot)

(***************************************************************************)
(* The mesh of GetMCIsoTriangles.  The tree refines the root and its child *)
(* (0,0,0); sDepth = 1, so the eight leaves of depth 2 are the one subtree *)
(* of the first part and the seven leaves of depth 1 are left to the       *)
(* second.  The corners on the face x = 0 are below the iso-value and all  *)
(* the others above: the x-edges of the leaves with offset x = 0 have a    *)
(* root.  A root is named by the key of GetRootIndex, that of the finest   *)
(* edge along it: the depth of the finest node and the place of the edge   *)
(* in units of the finest depth.  The sink is thread-safe: each insertion  *)
(* is one step.                                                            *)
(***************************************************************************)
MeshTree == { Root, <<1, 0, 0, 0>> }

MeshSDepth == 1

MeshMaxDepth == 2

\* the corner c of the leaf is below the iso-value
MeshBelow(leaf, c) == leaf[2] + FactorCornerIndex(c)[1] = 0

\* MarchingCubes::edgeMask[mcIndex] & (1 << edgeIndex)
MeshEdgeHasRoot(leaf, e) ==
    HasEdgeRoots(MeshBelow(leaf, EdgeCorners(e)[1]), MeshBelow(leaf, EdgeCorners(e)[2]))

\* the place of the edge e of the leaf in units of MeshMaxDepth: its axis, its
\* two coordinates across the axis and where it starts along it
MeshEdgeAt(leaf, e) ==
    LET f == FactorEdgeIndex(e)
        u == 2 ^ (MeshMaxDepth - Depth(leaf))
        a == IF f[1] = 0 THEN 3 ELSE 2
        b == IF f[1] = 2 THEN 3 ELSE 4
    IN <<f[1], u * (leaf[a] + f[2]), u * (leaf[b] + f[3]), u * leaf[f[1] + 2]>>

\* the edges with a root of the children of a refined node of the depth of the
\* leaf that lie along the edge e of the leaf
MeshFinerAlong(leaf, e) ==
    LET at == MeshEdgeAt(leaf, e)
        u == 2 ^ (MeshMaxDepth - Depth(leaf))
        all == { <<Child(n, c), e2>> : n \in { m \in MeshTree : Depth(m) = Depth(leaf) },
                                       c \in 0..7, e2 \in 0..(CubeEdges - 1) }
    IN { x \in all :
            /\ MeshEdgeHasRoot(x[1], x[2])
            /\ SubSeq(MeshEdgeAt(x[1], x[2]), 1, 3) = SubSeq(at, 1, 3)
            /\ MeshEdgeAt(x[1], x[2])[4] \in at[4]..(at[4] + u - 1) }

\* GetRootIndex(node, edgeIndex, maxDepth, neighborKey3, ri): ri.key, made of
\* the depth and the place of the finest edge with the root
RootKey(leaf, e) ==
    IF Depth(leaf) < MeshMaxDepth /\ MeshFinerAlong(leaf, e) # {}
    THEN LET fe == CHOOSE x \in MeshFinerAlong(leaf, e) : TRUE
         IN <<Depth(fe[1])>> \o MeshEdgeAt(fe[1], fe[2])
    ELSE <<Depth(leaf)>> \o MeshEdgeAt(leaf, e)

\* IsBoundaryEdge(node, edgeIndex, sDepth)
IsBoundaryEdge(leaf, e, sDepth) ==
    LET f == FactorEdgeIndex(e)
        idx1 == (IF f[1] = 0 THEN leaf[3] ELSE leaf[2]) + f[2]
        idx2 == (IF f[1] = 2 THEN leaf[3] ELSE leaf[4]) + f[3]
        mask == 2 ^ (Depth(leaf) - sDepth)
    IN IF sDepth < 0 THEN FALSE
       ELSE IF Depth(leaf) <= sDepth THEN TRUE
       ELSE idx1 % mask = 0 \/ idx2 % mask = 0

\* the edges of a leaf in the order of the loops of SetMCRootPositions
MeshEdgeOrder == [n \in 1..CubeEdges |->
    EdgeIndex((n - 1) \div 4, ((n - 1) \div 2) % 2, (n - 1) % 2)]

\* the edges of the leaf with a root, in that order
RootEdges(leaf) == SelectSeq(MeshEdgeOrder, LAMBDA e : MeshEdgeHasRoot(leaf, e))

\* the keys of the roots of the tree
MeshKeys ==
    LET all == (NodesOf(MeshTree) \ MeshTree) \X (0..(CubeEdges - 1))
    IN { RootKey(x[1], x[2]) : x \in { y \in all : MeshEdgeHasRoot(y[1], y[2]) } }

\* the leaves of the subtree with a root, and those of the second part
FineLeaves == SelectSeq(LeafNodes(MeshTree, 2), LAMBDA n : RootEdges(n) # <<>>)

CoarseLeaves == SelectSeq(LeafNodes(MeshTree, 1), LAMBDA n : RootEdges(n) # <<>>)

\* no index
NoIndex == -1

\* a point is added whatever the second look-up finds, which the code does not do
AddAlways(found) == TRUE

\* if(iter == end), if(!rootData.edgesSet[nodeEdgeIndex]): the second look-up,
\* inside the critical section
AddIfAbsent(found) == ~found

\* GetRootIndex(ri, rootData, index)
GetRootIndex(key, boundaryRoots, edgesSet, interiorRoots) ==
    IF boundaryRoots[key] # NoIndex THEN [found |-> TRUE, inCore |-> TRUE, idx |-> boundaryRoots[key]]
    ELSE IF edgesSet THEN [found |-> TRUE, inCore |-> FALSE, idx |-> interiorRoots]
    ELSE [found |-> FALSE]

\* the roots of the edge loop of a leaf: the indices GetRootIndex finds
EdgeIndices(leaf, boundaryRoots, edgesSet, interiorRoots) ==
    LET all == [n \in 1..Len(RootEdges(leaf)) |->
                    GetRootIndex(RootKey(leaf, RootEdges(leaf)[n]), boundaryRoots, edgesSet,
                                 interiorRoots)]
    IN SelectSeq(all, LAMBDA p : p.found)

\* AddTriangles: the polygons added for an edge loop, cIdx being the index of
\* the barycenter when one is added
AddedPolygons(edges, polygonMesh, addBarycenter, cIdx) ==
    LET n == Len(edges)
        v(i) == [inCore |-> edges[i].inCore, idx |-> edges[i].idx]
    IN IF polygonMesh THEN { [i \in 1..n |-> v(i)] }
       ELSE IF n > 3 /\ addBarycenter
       THEN { <<v(i), v((i % n) + 1), [inCore |-> FALSE, idx |-> cIdx]>> : i \in 1..n }
       ELSE IF n > 3 THEN { <<v(1), v(i), v(i + 1)>> : i \in 2..(n - 1) }
       ELSE IF n = 3 THEN { <<v(1), v(2), v(3)>> }
       ELSE {}

\* what the sink holds when a polygon is added
Stamp(polys, inCoreCount, outIds) ==
    { [vertices |-> q, inCoreCount |-> inCoreCount, outIds |-> outIds] : q \in polys }

\* the next edge of the leaf, or the next leaf
AfterEdge(th) ==
    IF th.n < Len(RootEdges(th.leaf)) THEN [th EXCEPT !.pc = "edge", !.n = @ + 1]
    ELSE IdleThread

MeshRuns ==
    { [pc |-> "roots", polygonMesh |-> pm, addBarycenter |-> ab, next |-> 1,
       thr |-> [t \in 1..IsoThreads |-> IdleThread],
       boundaryRoots |-> [k \in MeshKeys |-> NoIndex], edgesSet |-> FALSE,
       interiorRoots |-> NoIndex, inCorePoints |-> <<>>, outOfCorePoints |-> <<>>,
       interiorVertices |-> <<>>, polygons |-> {}, raced |-> {}] :
        pm \in BOOLEAN, ab \in BOOLEAN }

\* a thread takes the next leaf of the first parallel loop
MeshTake(t) ==
    /\ mesh.pc = "roots"
    /\ mesh.thr[t].pc = "idle"
    /\ mesh.next <= Len(FineLeaves)
    /\ mesh' = [mesh EXCEPT
            !.next = @ + 1,
            !.thr = [@ EXCEPT ![t] = [pc |-> "edge", leaf |-> FineLeaves[mesh.next], n |-> 1]]]
    /\ lastCall' = "SetMCRootPositions"
    /\ UNCHANGED meshRest

\* SetMCRootPositions, the first look-up of an edge with a root: boundaryRoots
\* inside the critical section, or edgesSet with no lock
MeshLookUp(t) ==
    /\ mesh.pc = "roots"
    /\ mesh.thr[t].pc = "edge"
    /\ LET th == mesh.thr[t]
           e == RootEdges(th.leaf)[th.n]
           boundary == IsBoundaryEdge(th.leaf, e, MeshSDepth)
           found == IF boundary THEN mesh.boundaryRoots[RootKey(th.leaf, e)] # NoIndex
                    ELSE mesh.edgesSet
       IN mesh' = [mesh EXCEPT !.thr = [@ EXCEPT ![t] =
                IF found THEN AfterEdge(th)
                ELSE [th EXCEPT !.pc = IF boundary THEN "addInCore" ELSE "addOutOfCore"]]]
    /\ lastCall' = "find"
    /\ UNCHANGED meshRest

\* the critical section boundary_roots_hash_access after GetRoot
MeshAddInCore(t) ==
    /\ mesh.pc = "roots"
    /\ mesh.thr[t].pc = "addInCore"
    /\ LET th == mesh.thr[t]
           key == RootKey(th.leaf, RootEdges(th.leaf)[th.n])
           found == mesh.boundaryRoots[key] # NoIndex
       IN mesh' = IF AddIfAbsent(found)
                  THEN [mesh EXCEPT
                            !.inCorePoints = Append(@, key),
                            !.boundaryRoots =
                                [@ EXCEPT ![key] = Len(Append(mesh.inCorePoints, key)) - 1],
                            !.raced = IF found THEN @ \cup {key} ELSE @,
                            !.thr = [@ EXCEPT ![t] = AfterEdge(th)]]
                  ELSE [mesh EXCEPT
                            !.raced = @ \cup {key},
                            !.thr = [@ EXCEPT ![t] = AfterEdge(th)]]
    /\ lastCall' = "addInCorePoint"
    /\ UNCHANGED meshRest

\* the critical section add_point_access after GetRoot
MeshAddOutOfCore(t) ==
    /\ mesh.pc = "roots"
    /\ mesh.thr[t].pc = "addOutOfCore"
    /\ LET th == mesh.thr[t]
           key == RootKey(th.leaf, RootEdges(th.leaf)[th.n])
       IN mesh' = IF AddIfAbsent(mesh.edgesSet)
                  THEN [mesh EXCEPT
                            !.outOfCorePoints = Append(@, key),
                            !.interiorRoots = Len(mesh.outOfCorePoints),
                            !.interiorVertices = Append(@, key),
                            !.edgesSet = TRUE,
                            !.raced = IF mesh.edgesSet THEN @ \cup {key} ELSE @,
                            !.thr = [@ EXCEPT ![t] = AfterEdge(th)]]
                  ELSE [mesh EXCEPT
                            !.raced = @ \cup {key},
                            !.thr = [@ EXCEPT ![t] = AfterEdge(th)]]
    /\ lastCall' = "addOutOfCorePoint"
    /\ UNCHANGED meshRest

\* the end of the first parallel loop
MeshJoin ==
    /\ mesh.pc = "roots"
    /\ mesh.next > Len(FineLeaves)
    /\ \A t \in 1..IsoThreads : mesh.thr[t].pc = "idle"
    /\ mesh' = [mesh EXCEPT !.pc = "triangles", !.next = 1]
    /\ lastCall' = "join"
    /\ UNCHANGED meshRest

\* the polygons of a leaf and the sink after them
WithPolygons(run, leaf, boundaryRoots, edgesSet, interiorRoots) ==
    LET edges == EdgeIndices(leaf, boundaryRoots, edgesSet, interiorRoots)
        bary == ~run.polygonMesh /\ run.addBarycenter /\ Len(edges) > 3
        cIdx == Len(run.outOfCorePoints)
        out == IF bary THEN Append(run.outOfCorePoints, <<"barycenter", leaf>>)
               ELSE run.outOfCorePoints
        polys == AddedPolygons(edges, run.polygonMesh, run.addBarycenter, cIdx)
    IN [run EXCEPT
            !.outOfCorePoints = out,
            !.polygons = @ \cup Stamp(polys, Len(run.inCorePoints), 0..(Len(out) - 1))]

\* GetMCIsoTriangles of a leaf of the second parallel loop, which reads the
\* tables of the roots and writes none
MeshTriangles ==
    /\ mesh.pc = "triangles"
    /\ mesh.next <= Len(FineLeaves)
    /\ mesh' = [WithPolygons(mesh, FineLeaves[mesh.next], mesh.boundaryRoots, mesh.edgesSet,
                             mesh.interiorRoots) EXCEPT !.next = @ + 1]
    /\ lastCall' = "GetMCIsoTriangles"
    /\ UNCHANGED meshRest

\* the tables of the subtree are cleared and boundaryRoots goes to coarseRootData
MeshToCoarse ==
    /\ mesh.pc = "triangles"
    /\ mesh.next > Len(FineLeaves)
    /\ mesh' = [mesh EXCEPT !.pc = "coarse", !.next = 1, !.edgesSet = FALSE,
                            !.interiorRoots = NoIndex, !.interiorVertices = <<>>]
    /\ lastCall' = "coarse"
    /\ UNCHANGED meshRest

RECURSIVE CoarseRoots(_, _, _)
\* SetMCRootPositions with coarseRootData, whose interiorRoots is empty: the
\* edges n.. of the leaf, by the one thread of the second part
CoarseRoots(run, leaf, n) ==
    IF n > Len(RootEdges(leaf)) THEN run
    ELSE LET key == RootKey(leaf, RootEdges(leaf)[n])
             found == run.boundaryRoots[key] # NoIndex
         IN CoarseRoots(
                IF found \/ ~AddIfAbsent(found) THEN run
                ELSE [run EXCEPT
                        !.inCorePoints = Append(@, key),
                        !.boundaryRoots =
                            [@ EXCEPT ![key] = Len(Append(run.inCorePoints, key)) - 1]],
                leaf, n + 1)

\* a leaf of the second part: SetMCRootPositions, then GetMCIsoTriangles
MeshCoarseLeaf ==
    /\ mesh.pc = "coarse"
    /\ mesh.next <= Len(CoarseLeaves)
    /\ LET leaf == CoarseLeaves[mesh.next]
           run == CoarseRoots(mesh, leaf, 1)
       IN mesh' = [WithPolygons(run, leaf, run.boundaryRoots, FALSE, NoIndex)
                        EXCEPT !.next = @ + 1]
    /\ lastCall' = "coarseLeaf"
    /\ UNCHANGED meshRest

MeshReturn ==
    /\ mesh.pc = "coarse"
    /\ mesh.next > Len(CoarseLeaves)
    /\ mesh' = [mesh EXCEPT !.pc = "done"]
    /\ lastCall' = "return"
    /\ UNCHANGED meshRest

InitMesh ==
    /\ boundaryType = "Neumann"
    /\ tree = MeshTree
    /\ maxDepth = TreeMaxDepth(tree) + 1
    /\ treeNodes = SetTreeNodes(tree).treeNodes
    /\ nodeCount = SetTreeNodes(tree).nodeCount
    /\ nodeIndex = SetNodeIndex(tree, treeNodes, nodeCount[maxDepth])
    /\ lastCall = "set"
    /\ cData = NoTable
    /\ eData = NoTable
    /\ tableArgs = NoArgs
    /\ sysDepth = 0
    /\ matrix = <<>>
    /\ mul = NoMul
    /\ sampleDepth = 0
    /\ constraints = <<>>
    /\ coefficients = <<>>
    /\ cg = NoCG
    /\ budget = NoBudget
    /\ cascade = NoCascade
    /\ subPass = NoSubPass
    /\ iso = NoIso
    /\ slots = NoSlots
    /\ getRoot = NoGetRoot
    /\ mesh \in MeshRuns
    /\ sink = NoSink
    /\ twice = NoTwice
    /\ splat = NoSplat
    /\ centerCall = NoCenterCall
    /\ isoCall = NoIsoCall
    /\ residual = NoResidual
    /\ product = NoProduct
    /\ restricted = NoRestricted
    /\ loops = NoLoops
    /\ triangles = NoTriangles
    /\ refine = NoRefine

NextMesh ==
    \/ \E t \in 1..IsoThreads : MeshTake(t)
    \/ \E t \in 1..IsoThreads : MeshLookUp(t)
    \/ \E t \in 1..IsoThreads : MeshAddInCore(t)
    \/ \E t \in 1..IsoThreads : MeshAddOutOfCore(t)
    \/ MeshJoin
    \/ MeshTriangles
    \/ MeshToCoarse
    \/ MeshCoarseLeaf
    \/ MeshReturn

SpecMesh == InitMesh /\ [][NextMesh]_vars

\* how many points of the sequence are the root with that key
PointsOf(points, key) == Cardinality({ i \in 1..Len(points) : points[i] = key })

\* C17: every vertex index of a polygon handed to the sink is that of a point
\* added before the polygon (an in-core index is below the in-core count of
\* that time, an out-of-core index was returned by an earlier
\* addOutOfCorePoint), and one point is added for a root key and for an
\* interior edge slot, however many threads reach the root.
C17_MeshClosure ==
    mesh.pc # "none" =>
        /\ \A q \in mesh.polygons : \A i \in 1..Len(q.vertices) :
                IF q.vertices[i].inCore
                THEN q.vertices[i].idx \in 0..(q.inCoreCount - 1)
                ELSE q.vertices[i].idx \in q.outIds
        /\ \A key \in MeshKeys :
                /\ PointsOf(mesh.inCorePoints, key) + PointsOf(mesh.outOfCorePoints, key) <= 1
                /\ mesh.boundaryRoots[key] # NoIndex =>
                        mesh.inCorePoints[mesh.boundaryRoots[key] + 1] = key
        /\ mesh.edgesSet => mesh.outOfCorePoints[mesh.interiorRoots + 1] \in MeshKeys

\* the extraction is over; two threads reached a boundary root and the
\* interior root together, and polygons with in-core and with out-of-core
\* vertices were added
C17_Witness ==
    /\ mesh.pc = "done"
    /\ \E key \in mesh.raced : PointsOf(mesh.inCorePoints, key) = 1
    /\ \E key \in mesh.raced : PointsOf(mesh.outOfCorePoints, key) = 1
    /\ \E q \in mesh.polygons : \E i, j \in 1..Len(q.vertices) :
            q.vertices[i].inCore /\ ~q.vertices[j].inCore
    /\ Cardinality(mesh.polygons) >= Len(FineLeaves) + Len(CoarseLeaves)

(***************************************************************************)
(* The calls of the sink by the two parallel loops of GetMCIsoTriangles,   *)
(* on the subtree of the mesh above.  A call of the sink takes time: a     *)
(* thread enters it in one step and returns from it in another.  A named   *)
(* critical section is entered when no thread is in it.                    *)
(***************************************************************************)
\* the names of the critical sections of SetMCRootPositions
CriticalSections == { "boundary_roots_hash_access", "add_point_access" }

\* the calls of the sink AddTriangles makes for an edge loop of n roots
TriangleCalls(n, polygonMesh, addBarycenter) ==
    IF polygonMesh THEN <<"addPolygon">>
    ELSE IF n > 3 /\ addBarycenter
    THEN <<"addOutOfCorePoint">> \o [i \in 1..n |-> "addPolygon"]
    ELSE IF n > 3 THEN [i \in 1..(n - 2) |-> "addPolygon"]
    ELSE IF n = 3 THEN <<"addPolygon">>
    ELSE <<>>

\* the thread is inside a call of the sink
InsideSink(th) == th.pc \in { "inAddInCore", "inAddOutOfCore", "inCall" }

\* the call of the sink the thread is inside
SinkCallOf(th) ==
    CASE th.pc = "inAddInCore" -> "addInCorePoint"
      [] th.pc = "inAddOutOfCore" -> "addOutOfCorePoint"
      [] th.pc = "inCall" -> th.calls[th.k]

SinkRuns ==
    { [pc |-> "roots", polygonMesh |-> pm, addBarycenter |-> ab, next |-> 1,
       thr |-> [t \in 1..IsoThreads |-> IdleThread],
       critical |-> [c \in CriticalSections |-> {}],
       boundaryRoots |-> {}, edgesSet |-> FALSE, inserted |-> 0] :
        pm \in BOOLEAN, ab \in BOOLEAN }

\* a thread takes the next leaf of the first parallel loop
SinkTake(t) ==
    /\ sink.pc = "roots"
    /\ sink.thr[t].pc = "idle"
    /\ sink.next <= Len(FineLeaves)
    /\ sink' = [sink EXCEPT
            !.next = @ + 1,
            !.thr = [@ EXCEPT ![t] = [pc |-> "edge", leaf |-> FineLeaves[sink.next], n |-> 1]]]
    /\ lastCall' = "SetMCRootPositions"
    /\ UNCHANGED sinkRest

\* the first look-up of an edge with a root: boundaryRoots inside its critical
\* section, or edgesSet with no lock
SinkLookUp(t) ==
    /\ sink.pc = "roots"
    /\ sink.thr[t].pc = "edge"
    /\ LET th == sink.thr[t]
           e == RootEdges(th.leaf)[th.n]
           boundary == IsBoundaryEdge(th.leaf, e, MeshSDepth)
           found == IF boundary THEN RootKey(th.leaf, e) \in sink.boundaryRoots
                    ELSE sink.edgesSet
       IN /\ boundary => sink.critical["boundary_roots_hash_access"] = {}
          /\ sink' = [sink EXCEPT !.thr = [@ EXCEPT ![t] =
                IF found THEN AfterEdge(th)
                ELSE [th EXCEPT !.pc = IF boundary THEN "addInCore" ELSE "addOutOfCore"]]]
    /\ lastCall' = "find"
    /\ UNCHANGED sinkRest

\* the thread enters boundary_roots_hash_access and, the key being absent
\* still, addInCorePoint
SinkAddInCore(t) ==
    /\ sink.pc = "roots"
    /\ sink.thr[t].pc = "addInCore"
    /\ sink.critical["boundary_roots_hash_access"] = {}
    /\ LET th == sink.thr[t]
           key == RootKey(th.leaf, RootEdges(th.leaf)[th.n])
       IN sink' = IF AddIfAbsent(key \in sink.boundaryRoots)
                  THEN [sink EXCEPT
                            !.critical = [@ EXCEPT !["boundary_roots_hash_access"] = {t}],
                            !.thr = [@ EXCEPT ![t] = [th EXCEPT !.pc = "inAddInCore"]]]
                  ELSE [sink EXCEPT !.thr = [@ EXCEPT ![t] = AfterEdge(th)]]
    /\ lastCall' = "addInCorePoint"
    /\ UNCHANGED sinkRest

\* addInCorePoint returns, the index is stored and the section is left
SinkInCoreAdded(t) ==
    /\ sink.pc = "roots"
    /\ sink.thr[t].pc = "inAddInCore"
    /\ LET th == sink.thr[t]
           key == RootKey(th.leaf, RootEdges(th.leaf)[th.n])
       IN sink' = [sink EXCEPT
                        !.boundaryRoots = @ \cup {key},
                        !.inserted = @ + 1,
                        !.critical = [@ EXCEPT !["boundary_roots_hash_access"] = {}],
                        !.thr = [@ EXCEPT ![t] = AfterEdge(th)]]
    /\ lastCall' = "boundaryRoots"
    /\ UNCHANGED sinkRest

\* the thread enters add_point_access and, edgesSet being 0 still,
\* addOutOfCorePoint
SinkAddOutOfCore(t) ==
    /\ sink.pc = "roots"
    /\ sink.thr[t].pc = "addOutOfCore"
    /\ sink.critical["add_point_access"] = {}
    /\ LET th == sink.thr[t]
       IN sink' = IF AddIfAbsent(sink.edgesSet)
                  THEN [sink EXCEPT
                            !.critical = [@ EXCEPT !["add_point_access"] = {t}],
                            !.thr = [@ EXCEPT ![t] = [th EXCEPT !.pc = "inAddOutOfCore"]]]
                  ELSE [sink EXCEPT !.thr = [@ EXCEPT ![t] = AfterEdge(th)]]
    /\ lastCall' = "addOutOfCorePoint"
    /\ UNCHANGED sinkRest

\* addOutOfCorePoint returns, interiorRoots and edgesSet are stored and the
\* section is left
SinkOutOfCoreAdded(t) ==
    /\ sink.pc = "roots"
    /\ sink.thr[t].pc = "inAddOutOfCore"
    /\ sink' = [sink EXCEPT
                    !.edgesSet = TRUE,
                    !.inserted = @ + 1,
                    !.critical = [@ EXCEPT !["add_point_access"] = {}],
                    !.thr = [@ EXCEPT ![t] = AfterEdge(sink.thr[t])]]
    /\ lastCall' = "interiorRoots"
    /\ UNCHANGED sinkRest

\* the end of the first parallel loop
SinkJoin ==
    /\ sink.pc = "roots"
    /\ sink.next > Len(FineLeaves)
    /\ \A t \in 1..IsoThreads : sink.thr[t].pc = "idle"
    /\ sink' = [sink EXCEPT !.pc = "triangles", !.next = 1]
    /\ lastCall' = "join"
    /\ UNCHANGED sinkRest

\* a thread takes the next leaf of the second parallel loop: GetMCIsoTriangles
\* gets the indices of the roots of its edge loop and calls AddTriangles
SinkTriangles(t) ==
    /\ sink.pc = "triangles"
    /\ sink.thr[t].pc = "idle"
    /\ sink.next <= Len(FineLeaves)
    /\ LET leaf == FineLeaves[sink.next]
           calls == TriangleCalls(Len(RootEdges(leaf)), sink.polygonMesh, sink.addBarycenter)
       IN sink' = [sink EXCEPT
                !.next = @ + 1,
                !.thr = [@ EXCEPT ![t] =
                    IF calls = <<>> THEN IdleThread
                    ELSE [pc |-> "call", leaf |-> leaf, calls |-> calls, k |-> 1]]]
    /\ lastCall' = "GetMCIsoTriangles"
    /\ UNCHANGED sinkRest

\* AddTriangles calls the sink: no critical section is around the call
SinkCall(t) ==
    /\ sink.pc = "triangles"
    /\ sink.thr[t].pc = "call"
    /\ sink' = [sink EXCEPT !.thr = [@ EXCEPT ![t] = [@ EXCEPT !.pc = "inCall"]]]
    /\ lastCall' = "call"
    /\ UNCHANGED sinkRest

\* the call of AddTriangles returns
SinkCalled(t) ==
    /\ sink.pc = "triangles"
    /\ sink.thr[t].pc = "inCall"
    /\ LET th == sink.thr[t]
       IN sink' = [sink EXCEPT
                !.inserted = @ + 1,
                !.thr = [@ EXCEPT ![t] =
                    IF th.k < Len(th.calls) THEN [th EXCEPT !.pc = "call", !.k = @ + 1]
                    ELSE IdleThread]]
    /\ lastCall' = "called"
    /\ UNCHANGED sinkRest

\* the end of the second parallel loop
SinkReturn ==
    /\ sink.pc = "triangles"
    /\ sink.next > Len(FineLeaves)
    /\ \A t \in 1..IsoThreads : sink.thr[t].pc = "idle"
    /\ sink' = [sink EXCEPT !.pc = "done"]
    /\ lastCall' = "return"
    /\ UNCHANGED sinkRest

InitSink ==
    /\ boundaryType = "Neumann"
    /\ tree = MeshTree
    /\ maxDepth = TreeMaxDepth(tree) + 1
    /\ treeNodes = SetTreeNodes(tree).treeNodes
    /\ nodeCount = SetTreeNodes(tree).nodeCount
    /\ nodeIndex = SetNodeIndex(tree, treeNodes, nodeCount[maxDepth])
    /\ lastCall = "set"
    /\ cData = NoTable
    /\ eData = NoTable
    /\ tableArgs = NoArgs
    /\ sysDepth = 0
    /\ matrix = <<>>
    /\ mul = NoMul
    /\ sampleDepth = 0
    /\ constraints = <<>>
    /\ coefficients = <<>>
    /\ cg = NoCG
    /\ budget = NoBudget
    /\ cascade = NoCascade
    /\ subPass = NoSubPass
    /\ iso = NoIso
    /\ slots = NoSlots
    /\ getRoot = NoGetRoot
    /\ mesh = NoMesh
    /\ sink \in SinkRuns
    /\ twice = NoTwice
    /\ splat = NoSplat
    /\ centerCall = NoCenterCall
    /\ isoCall = NoIsoCall
    /\ residual = NoResidual
    /\ product = NoProduct
    /\ restricted = NoRestricted
    /\ loops = NoLoops
    /\ triangles = NoTriangles
    /\ refine = NoRefine

NextSink ==
    \/ \E t \in 1..IsoThreads : SinkTake(t)
    \/ \E t \in 1..IsoThreads : SinkLookUp(t)
    \/ \E t \in 1..IsoThreads : SinkAddInCore(t)
    \/ \E t \in 1..IsoThreads : SinkInCoreAdded(t)
    \/ \E t \in 1..IsoThreads : SinkAddOutOfCore(t)
    \/ \E t \in 1..IsoThreads : SinkOutOfCoreAdded(t)
    \/ SinkJoin
    \/ \E t \in 1..IsoThreads : SinkTriangles(t)
    \/ \E t \in 1..IsoThreads : SinkCall(t)
    \/ \E t \in 1..IsoThreads : SinkCalled(t)
    \/ SinkReturn

SpecSink == InitSink /\ [][NextSink]_vars

\* the threads inside a call of the sink
ThreadsInside == { t \in 1..IsoThreads : InsideSink(sink.thr[t]) }

\* C18: the insertions into the sink (addInCorePoint, addOutOfCorePoint,
\* addPolygon) are serialized: in no interleaving of the parallel loops over
\* the leaves are two threads inside an insertion at the same time.
C18_Serialized ==
    sink.pc # "none" => Cardinality(ThreadsInside) <= 1

\* two threads of the second loop are inside addPolygon at the same time
C18_Diverges ==
    /\ sink.pc = "triangles"
    /\ \E t, u \in ThreadsInside :
            /\ t # u
            /\ SinkCallOf(sink.thr[t]) = "addPolygon"
            /\ SinkCallOf(sink.thr[u]) = "addPolygon"

\* a thread of the first loop is inside addInCorePoint while another is inside
\* addOutOfCorePoint: the two critical sections have different names
InCoreWithOutOfCore ==
    /\ sink.pc = "roots"
    /\ \E t, u \in ThreadsInside :
            /\ SinkCallOf(sink.thr[t]) = "addInCorePoint"
            /\ SinkCallOf(sink.thr[u]) = "addOutOfCorePoint"

\* what the critical sections do exclude: two threads of the first loop inside
\* the same call
SameCallExcluded ==
    sink.pc = "roots" =>
        \A t, u \in ThreadsInside :
            t # u => SinkCallOf(sink.thr[t]) # SinkCallOf(sink.thr[u])

(***************************************************************************)
(* LaplacianMatrixIteration called twice on one tree, the whole-depth      *)
(* solves (subdivideDepth = 0), no screening (constrainValues_ is false),  *)
(* a fixed boundary.  The integrals of the integrator are an input: the    *)
(* tables are small, so that the exact conjugate gradients stay within     *)
(* the integers.  A field of the nodes (constraint, solution) and          *)
(* metSolution are sequences over the slots of treeNodes.                  *)
(***************************************************************************)
\* F(v) with v computed once and in full: the bound variable holds the value
With(v, F(_)) == CHOOSE r \in { F(x) : x \in { y \in {v} : y = y } } : TRUE

\* the refined nodes of the tree: the root, whose eight children are leaves
TwiceTree == {Root}

\* the tables of an integrator: the integrals of two functions of one depth
\* |k| cells apart (vv) and of their derivatives (dd), entry |k| + 1, and of
\* a child at offset 2 p + k with its parent's neighbour at offset p (cvv,
\* cdd), entry k + 3
TwiceIntegrators ==
    { [vv |-> <<1, 0, 0>>, dd |-> <<1, 0, 0>>,
       cvv |-> <<0, 0, 1, 1, 0, 0>>, cdd |-> <<0, 0, 1, 1, 0, 0>>],
      [vv |-> <<4, 1, 0>>, dd |-> <<2, -1, 0>>,
       cvv |-> <<0, 1, 3, 3, 1, 0>>, cdd |-> <<0, -1, 1, 1, -1, 0>>] }

\* integrator.dot(d, off1, off2, d1, d1, childParent) read from the tables
TableDot(in, off1, off2, d1, childParent) ==
    IF childParent
    THEN LET k == off1 - 2 * off2
         IN IF k < -2 \/ k > 3 THEN 0 ELSE (IF d1 THEN in.cdd ELSE in.cvv)[k + 3]
    ELSE LET k == Abs(off1 - off2)
         IN IF k > 2 THEN 0 ELSE (IF d1 THEN in.dd ELSE in.vv)[k + 1]

\* Octree::GetLaplacian(integrator, d, off1, off2, childParent)
GetLaplacianOf(in, d, off1, off2, childParent) ==
    LET vv == [k \in 1..3 |-> TableDot(in, off1[k], off2[k], FALSE, childParent)]
        dd == [k \in 1..3 |-> TableDot(in, off1[k], off2[k], TRUE, childParent)]
    IN dd[1] * vv[2] * vv[3] + vv[1] * dd[2] * vv[3] + vv[1] * vv[2] * dd[3]

\* off of depthAndOffset(d, off)
OffsetOf(node) == <<node[2], node[3], node[4]>>

\* temp of SetMatrixRow for the neighbour at position q; no node of a depth
\* below 2 is interior, the stencil is not read
IntegralEntry(in, node, q) ==
    GetLaplacianOf(in, Depth(node), OffsetOf(node),
                   OffsetOf(Neighbors5(node, q[1], q[2], q[3])), FALSE)

\* the row SetMatrixRow writes in symmetric mode over the full range
IntegralRow(in, node, offset) ==
    With(SelectSeq(RowPositions(FullRange, TRUE),
                   LAMBDA q : /\ Neighbors5(node, q[1], q[2], q[3]) # Null
                              /\ nodeIndex[Neighbors5(node, q[1], q[2], q[3])] >= 0
                              /\ Abs(IntegralEntry(in, node, q)) > MATRIX_ENTRY_EPSILON),
         LAMBDA stored :
            [k \in 1..Len(stored) |->
                [N |-> nodeIndex[Neighbors5(node, stored[k][1], stored[k][2], stored[k][3])]
                        - offset,
                 Value |-> IF stored[k] = <<2, 2, 2>>
                           THEN RNorm(IntegralEntry(in, node, stored[k]), 2)
                           ELSE RInt(IntegralEntry(in, node, stored[k]))]])

\* range after UpdateCoarserSupportBounds(node, range)
UpdateCoarserSupportBounds(node, range) ==
    IF Depth(node) = 0 THEN range
    ELSE LET f == FactorCornerIndex(ChildIndex(node))
         IN [xStart |-> IF f[1] = 0 THEN range.xStart ELSE 1,
             xEnd |-> IF f[1] = 0 THEN 4 ELSE range.xEnd,
             yStart |-> IF f[2] = 0 THEN range.yStart ELSE 1,
             yEnd |-> IF f[2] = 0 THEN 4 ELSE range.yEnd,
             zStart |-> IF f[3] = 0 THEN range.zStart ELSE 1,
             zEnd |-> IF f[3] = 0 THEN 4 ELSE range.zEnd]

\* what one pass of the loops of UpdateConstraintsFromCoarser subtracts: the
\* neighbour of the parent at position q
CoarserTerm(in, node, q, metSolution) ==
    LET other == Neighbors5(Parent(node), q[1], q[2], q[3])
    IN IF other # Null /\ nodeIndex[other] >= 0
       THEN RMul(RInt(GetLaplacianOf(in, Depth(node), OffsetOf(node), OffsetOf(other), TRUE)),
                 metSolution[nodeIndex[other] + 1])
       ELSE RZero

\* node->nodeData.constraint after UpdateConstraintsFromCoarser(.., node,
\* metSolution, ..); no node of a depth below 3 is interior here (mn = 4)
UpdateConstraintsFromCoarser(in, node, constraint, metSolution, minDepth) ==
    IF Depth(node) <= minDepth THEN constraint
    ELSE With(RowPositions(UpdateCoarserSupportBounds(node, FullRange), FALSE), LAMBDA pos :
            RSub(constraint,
                 Sum([k \in 1..Len(pos) |-> CoarserTerm(in, node, pos[k], metSolution)])))

\* the vector UpSampleCoarserSolution(depth, sNodes) returns
UpSampleCoarserSolution(depth, solution) ==
    LET start == nodeCount[depth]
        zero == ZeroVector(nodeCount[depth + 1] - start)
        add(vec, c) ==
            [vec EXCEPT ![c.i - start + 1] =
                RAdd(@, RMul(solution[c.node + 1], RMul(RMul(c.v[1], c.v[2]), c.v[3])))]
        upTo(calls) ==
            LET sum[k \in 0..Len(calls)] == IF k = 0 THEN zero ELSE add(sum[k - 1], calls[k])
            IN sum[Len(calls)]
    IN IF depth = 0 THEN zero ELSE With(UpSampleGeneric(depth, boundaryType), upTo)

\* the solutions of the nodes after UpSampleCoarserSolution(depth, sNodes):
\* those of the coarser depth are cleared
ClearCoarser(depth, solution) ==
    IF depth = 0 THEN solution
    ELSE [i \in 1..Len(solution) |->
            IF i - 1 \in DepthSlots(depth - 1) THEN RZero ELSE solution[i]]

\* metSolution after the else branch of lines 1637-1645
AddCoarserSolution(depth, metSolution, solution) ==
    With(UpSample(depth - 1, boundaryType, metSolution), LAMBDA up :
        [i \in 1..Len(up) |->
            IF i - 1 \in DepthSlots(depth - 1) THEN RAdd(up[i], solution[i]) ELSE up[i]])

\* the constraints of the nodes after GetFixedDepthLaplacian(depth, ..)
ConstraintsAfter(in, depth, constraint, metSolution, minDepth) ==
    [i \in 1..Len(constraint) |->
        IF i - 1 \in DepthSlots(depth) /\ InsetSupported(TreeNode(i - 1))
        THEN UpdateConstraintsFromCoarser(in, TreeNode(i - 1), constraint[i], metSolution, minDepth)
        ELSE constraint[i]]

\* the matrix GetFixedDepthLaplacian(depth, ..) returns
TableLaplacian(in, depth) ==
    [r \in 1..(nodeCount[depth + 1] - nodeCount[depth]) |->
        IF InsetSupported(TreeNode(r - 1 + nodeCount[depth]))
        THEN IntegralRow(in, TreeNode(r - 1 + nodeCount[depth]), nodeCount[depth])
        ELSE <<[N |-> r - 1, Value |-> RInt(1)]>>]

\* Solve followed from its loop to its return
RECURSIVE SolveLoop(_)
SolveLoop(c) ==
    With(c, LAMBDA s : IF SolveContinues(s) THEN SolveLoop(SolveBody(s)) ELSE [s EXCEPT !.ret = s.ii])

\* Solve(M, B, iters, X, accuracy, false, threads, addDCTerm) from its entry
\* to its return
SolveCall(M, B, iters, X, accuracy, threads, addDCTerm) ==
    LET entered == SolveEntry([pc |-> "entry", A |-> M, b |-> B, iters |-> iters, x |-> X,
                               eps |-> accuracy, reset |-> FALSE, threads |-> threads,
                               addDCTerm |-> addDCTerm, r |-> <<>>, d |-> <<>>,
                               deltaNew |-> RZero, delta0 |-> RZero, ii |-> 0, ret |-> -1,
                               warned |-> FALSE, deltas |-> <<>>])
    IN IF entered.pc = "done" THEN entered ELSE SolveLoop(entered)

\* the accuracy of a solve with fixedIters >= 0 is 1e-10: squared, it lies
\* below every delta of the model but 0, as the square of 0 does
FixedAccuracy == RZero

\* the state after the whole-depth SolveFixedDepthMatrix(depth, ..)
SolveFixedDepthMatrix(t, depth) ==
    LET start == nodeCount[depth]
        rows == nodeCount[depth + 1] - start
        coarse == depth <= t.minDepth
        res == 2 ^ depth
        noSolve == depth > t.maxSolveDepth
        \* lines 1686-1690: the solutions are written back and iter is returned
        Written(cleared, metSolution, constraint, X, iter) ==
            [t EXCEPT !.constraint = constraint,
                      !.metSolution = metSolution,
                      !.solution = [i \in 1..Len(cleared) |->
                                      IF i - 1 \in DepthSlots(depth) THEN X[i - start]
                                      ELSE cleared[i]],
                      !.iter = t.iter + iter,
                      !.d = depth + 1]
        \* lines 1655-1675: the matrix, B and the call of Solve
        Solved(X0, cleared, metSolution, constraint) ==
            IF noSolve THEN Written(cleared, metSolution, constraint, X0, 0)
            ELSE With(TableLaplacian(t.integrator, depth), LAMBDA M :
                 With([r \in 1..rows |-> constraint[start + r]], LAMBDA B :
                 With(SolveCall(M, B, t.fixedIters, X0, FixedAccuracy, t.threads,
                                rows = res * res * res /\ boundaryType # "Dirichlet"),
                      LAMBDA solved :
                          Written(cleared, metSolution, constraint, solved.x, solved.ret))))
    IN With(IF coarse THEN UpSampleCoarserSolution(depth, t.solution) ELSE ZeroVector(rows),
            LAMBDA X0 :
       With(IF coarse THEN ClearCoarser(depth, t.solution) ELSE t.solution, LAMBDA cleared :
       With(IF coarse THEN t.metSolution
            ELSE AddCoarserSolution(depth, t.metSolution, t.solution), LAMBDA metSolution :
       With(ConstraintsAfter(t.integrator, depth, t.constraint, metSolution, t.minDepth),
            LAMBDA constraint : Solved(X0, cleared, metSolution, constraint)))))

\* the largest constraint of a node
MaxConstraint == 1

\* the largest fixedIters
MaxTwiceIters == 1

\* the constraints of the nine nodes: that of the root and that of its
\* eight children
TwiceConstraints ==
    { <<RInt(c)>> \o [k \in 1..8 |-> RInt(u)] :
        c \in -MaxConstraint..MaxConstraint, u \in 0..MaxConstraint }

\* the tree after SetLaplacianConstraints, before the first call
TwiceRuns ==
    { [pc |-> "idle", run |-> 1, d |-> 0, iter |-> 0, input |-> cons, constraint |-> cons,
       solution |-> ZeroVector(Len(cons)), metSolution |-> <<>>, first |-> <<>>,
       integrator |-> in, minDepth |-> minDepth, maxSolveDepth |-> maxSolveDepth,
       fixedIters |-> fixedIters, threads |-> threads] :
        cons \in TwiceConstraints, in \in TwiceIntegrators, minDepth \in 0..1,
        maxSolveDepth \in 0..1, fixedIters \in 0..MaxTwiceIters, threads \in {1, MaxThreads} }

\* lines 1605-1615 of LaplacianMatrixIteration: the solution of the root and
\* a new metSolution are set to 0
TwiceEnter ==
    /\ twice.pc = "idle"
    /\ twice' = [twice EXCEPT !.pc = "loop", !.d = 0, !.iter = 0,
                              !.solution = [@ EXCEPT ![1] = RZero],
                              !.metSolution = ZeroVector(nodeCount[maxDepth])]
    /\ lastCall' = "LaplacianMatrixIteration"
    /\ UNCHANGED twiceRest

\* one pass of the loop over the depths
TwiceDepth ==
    /\ twice.pc = "loop"
    /\ twice.d # maxDepth
    /\ twice' = SolveFixedDepthMatrix(twice, twice.d)
    /\ lastCall' = "SolveFixedDepthMatrix"
    /\ UNCHANGED twiceRest

\* return iter; the caller keeps the solutions of the first call and calls again
TwiceReturn ==
    /\ twice.pc = "loop"
    /\ twice.d = maxDepth
    /\ twice' = IF twice.run = 1
                THEN [twice EXCEPT !.pc = "idle", !.run = 2, !.first = twice.solution]
                ELSE [twice EXCEPT !.pc = "returned"]
    /\ lastCall' = "return"
    /\ UNCHANGED twiceRest

InitTwice ==
    /\ boundaryType \in {"Dirichlet", "Neumann"}
    /\ tree = TwiceTree
    /\ maxDepth = TreeMaxDepth(tree) + 1
    /\ treeNodes = SetTreeNodes(tree).treeNodes
    /\ nodeCount = SetTreeNodes(tree).nodeCount
    /\ nodeIndex = SetNodeIndex(tree, treeNodes, nodeCount[maxDepth])
    /\ lastCall = "set"
    /\ cData = NoTable
    /\ eData = NoTable
    /\ tableArgs = NoArgs
    /\ sysDepth = 0
    /\ matrix = <<>>
    /\ mul = NoMul
    /\ sampleDepth = 0
    /\ constraints = <<>>
    /\ coefficients = <<>>
    /\ cg = NoCG
    /\ budget = NoBudget
    /\ cascade = NoCascade
    /\ subPass = NoSubPass
    /\ iso = NoIso
    /\ slots = NoSlots
    /\ getRoot = NoGetRoot
    /\ mesh = NoMesh
    /\ sink = NoSink
    /\ twice \in TwiceRuns
    /\ splat = NoSplat
    /\ centerCall = NoCenterCall
    /\ isoCall = NoIsoCall
    /\ residual = NoResidual
    /\ product = NoProduct
    /\ restricted = NoRestricted
    /\ loops = NoLoops
    /\ triangles = NoTriangles
    /\ refine = NoRefine

NextTwice ==
    \/ TwiceEnter
    \/ TwiceDepth
    \/ TwiceReturn

SpecTwice == InitTwice /\ [][NextTwice]_vars

\* C19: running the solve twice on the same input with the same
\* configuration yields equal solution fields on every node: the second call
\* of LaplacianMatrixIteration leaves in every node the solution the first
\* call left, whatever state the first call left behind.
C19_SameSolution ==
    twice.pc = "returned" => twice.solution = twice.first

\* the second call has returned with another solution for a node of depth 1:
\* the first call left a constraint of that depth changed
C19_Diverges ==
    /\ twice.pc = "returned"
    /\ twice.minDepth = 0
    /\ \E i \in DepthSlots(1) : twice.solution[i + 1] # twice.first[i + 1]
    /\ \E i \in DepthSlots(1) : twice.constraint[i + 1] # twice.input[i + 1]

\* the calls agree when no constraint is updated from a coarser depth: every
\* depth is at most minDepth_
SameWhenAllCoarse ==
    twice.pc = "returned" /\ twice.minDepth >= maxDepth - 1 => twice.solution = twice.first

\* the constraints of the depths up to minDepth_ are left as they were
CoarseConstraintsKept ==
    twice.pc # "none" =>
        \A i \in 1..Len(twice.constraint) :
            Depth(TreeNode(i - 1)) <= twice.minDepth => twice.constraint[i] = twice.input[i]

\* the solution of the root is that of the first call: its constraint is
\* never changed
SameAtRoot ==
    twice.pc = "returned" => twice.solution[1] = twice.first[1]

(***************************************************************************)
(* setTree: the density pass and the normal pass over the point stream.    *)
(* The boundary is fixed, samplesPerNode is positive, every point lies in  *)
(* bounds and has a normal of length 1 (useConfidence and useNormalWeights *)
(* are off).  A position is the cell of the finest depth that holds it;    *)
(* the densities are not followed: the sample depth GetSampleDepthAndWeight*)
(* derives from them is an input of the pass.  The tree is the set of the  *)
(* nodes that have children.                                               *)
(***************************************************************************)
\* maxDepth of setTree, and the largest splatDepth
SplatMaxDepth == 2

\* TreeOctNode::CornerIndex(myCenter, position) at node
CornerIndexAt(node, p) ==
    LET side == 2 ^ (SplatMaxDepth - Depth(node) - 1)
    IN CornerIndex((p[1] \div side) % 2, (p[2] \div side) % 2, (p[3] \div side) % 2)

\* the node of depth d the descent from node to position p ends at
RECURSIVE Descend(_, _, _)
Descend(node, p, d) ==
    IF Depth(node) >= d THEN node ELSE Descend(Child(node, CornerIndexAt(node, p)), p, d)

\* the nodes of depth lo .. hi - 1 on the way from the root to position p
PathNodes(p, lo, hi) == {Descend(Root, p, d) : d \in lo..(hi - 1)}

\* whether the first loop of SplatOrientedPoint meets a node without children
SplatError(t, p, splatDepth) == \E n \in PathNodes(p, 0, splatDepth) : n \notin t

\* topDepth for the sample depth halves / 2
TopDepth(halves) == (halves + 1) \div 2

\* the calls SplatOrientedPoint(temp, position, n, neighborKey) made for the
\* sample depth halves / 2: at topDepth, and at its parent when dx # 1
NodeSplats(p, halves) ==
    {Descend(Root, p, TopDepth(halves))} \cup
    (IF halves % 2 = 1 THEN {Descend(Root, p, TopDepth(halves) - 1)} ELSE {})

\* SplatOrientedPoint(position, normal, neighborKey, splatDepth,
\* samplesPerNode, minDepth, maxDepth) on the tree t: what it returns, the
\* tree it leaves, the nodes it splats the normal at and whether it has
\* written its error message; weight is 4 ^ -depth
SplatOrientedPoint(t, p, splatDepth, halves) ==
    IF SplatError(t, p, splatDepth)
    THEN [ret |-> RInt(-1), tree |-> t, nodes |-> {}, error |-> TRUE]
    ELSE [ret |-> RNorm(1, 2 ^ halves),
          tree |-> t \cup PathNodes(p, 0, TopDepth(halves)),
          nodes |-> NodeSplats(p, halves),
          error |-> FALSE]

\* the nodes the screening loop adds the point to: the root and every node
\* below it on the way to p, down to the first without children
RECURSIVE ScreenedNodes(_, _, _)
ScreenedNodes(t, p, node) ==
    IF node \notin t THEN {node}
    ELSE {node} \cup ScreenedNodes(t, p, Child(node, CornerIndexAt(node, p)))

\* the positions of the streams: two in one octant of the root, one in the
\* opposite octant
SplatCells ==
    { <<0, 0, 0>>, <<2 ^ (SplatMaxDepth - 2), 0, 0>>,
      <<2 ^ SplatMaxDepth - 1, 2 ^ SplatMaxDepth - 1, 2 ^ SplatMaxDepth - 1>> }

\* the points a pass reads from the stream
SplatStreams == {<<p>> : p \in SplatCells} \cup {<<p, q>> : p, q \in SplatCells}

\* setTree past tree_.setFullDepth(minDepth_): the density pass reads first,
\* the normal pass reads second after reset(); the stream is restartable, or
\* it has one more point when it is read again
SplatRuns ==
    { [pc |-> "density", i |-> 1, first |-> s, second |-> s \o extra, tree |-> FullTree(minDepth),
       splatDepth |-> splatDepth, minDepth |-> minDepth, constrainValues |-> constrainValues,
       pointWeightSum |-> RZero, cnt |-> 0, errors |-> {}, added |-> <<>>, counted |-> {},
       normals |-> {}, points |-> {}, ret |-> -1] :
        s \in SplatStreams, extra \in {<<>>} \cup {<<p>> : p \in SplatCells},
        splatDepth \in 0..SplatMaxDepth, minDepth \in 0..1, constrainValues \in BOOLEAN }

\* one pass of the loop of lines 713-735: the nodes on the way to the point
\* down to splatDepth are given children
DensityPoint ==
    /\ splat.pc = "density"
    /\ splat.splatDepth > 0
    /\ splat.i <= Len(splat.first)
    /\ splat' = [splat EXCEPT !.i = @ + 1,
                              !.tree = @ \cup PathNodes(splat.first[splat.i], 0, splat.splatDepth)]
    /\ lastCall' = "UpdateWeightContribution"
    /\ UNCHANGED splatRest

\* lines 738-743: the stream is exhausted (or splatDepth is 0) and is reset
DensityEnd ==
    /\ splat.pc = "density"
    /\ splat.splatDepth = 0 \/ splat.i > Len(splat.first)
    /\ splat' = [splat EXCEPT !.pc = "normals", !.i = 1, !.pointWeightSum = RZero, !.cnt = 0,
                              !.normals = {}]
    /\ lastCall' = "reset"
    /\ UNCHANGED splatRest

\* the body of the loop of lines 744-806 for the next point when
\* samplesPerNode > 0 && splatDepth holds; halves / 2 is the sample depth
\* after clamp(depth, minDepth, maxDepth)
NormalPoint(halves) ==
    /\ splat.pc = "normals"
    /\ splat.splatDepth > 0
    /\ splat.i <= Len(splat.second)
    /\ halves >= 2 * splat.minDepth
    /\ LET p == splat.second[splat.i]
           call == SplatOrientedPoint(splat.tree, p, splat.splatDepth, halves)
       IN splat' = [splat EXCEPT
                      !.i = @ + 1,
                      !.tree = call.tree,
                      !.errors = IF call.error THEN @ \cup {splat.i} ELSE @,
                      !.normals = @ \cup {<<splat.i, n>> : n \in call.nodes},
                      !.pointWeightSum = RAdd(@, call.ret),
                      !.added = Append(@, call.ret),
                      !.points = IF splat.constrainValues
                                 THEN @ \cup {<<splat.i, n>> : n \in ScreenedNodes(call.tree, p, Root)}
                                 ELSE @,
                      !.counted = @ \cup {splat.i},
                      !.cnt = @ + 1]
    /\ lastCall' = "SplatOrientedPoint"
    /\ UNCHANGED splatRest

\* the body of the loop when splatDepth is 0: the else branch descends to
\* maxDepth, giving children where there are none, and splats there
NormalPointUnweighted ==
    /\ splat.pc = "normals"
    /\ splat.splatDepth = 0
    /\ splat.i <= Len(splat.second)
    /\ LET p == splat.second[splat.i]
           grown == splat.tree \cup PathNodes(p, 0, SplatMaxDepth)
       IN splat' = [splat EXCEPT
                      !.i = @ + 1,
                      !.tree = grown,
                      !.normals = @ \cup {<<splat.i, Descend(Root, p, SplatMaxDepth)>>},
                      !.added = Append(@, RZero),
                      !.points = IF splat.constrainValues
                                 THEN @ \cup {<<splat.i, n>> : n \in ScreenedNodes(grown, p, Root)}
                                 ELSE @,
                      !.counted = @ \cup {splat.i},
                      !.cnt = @ + 1]
    /\ lastCall' = "SplatOrientedPoint"
    /\ UNCHANGED splatRest

\* the stream is exhausted: return cnt
SetTreeReturn ==
    /\ splat.pc = "normals"
    /\ splat.i > Len(splat.second)
    /\ splat' = [splat EXCEPT !.pc = "done", !.ret = splat.cnt]
    /\ lastCall' = "return"
    /\ UNCHANGED splatRest

InitSplat ==
    /\ boundaryType = "Neumann"
    /\ tree = {}
    /\ nodeIndex = [n \in {Root} |-> -1]
    /\ treeNodes = <<>>
    /\ nodeCount = <<>>
    /\ maxDepth = 0
    /\ lastCall = "none"
    /\ cData = NoTable
    /\ eData = NoTable
    /\ tableArgs = NoArgs
    /\ sysDepth = 0
    /\ matrix = <<>>
    /\ mul = NoMul
    /\ sampleDepth = 0
    /\ constraints = <<>>
    /\ coefficients = <<>>
    /\ cg = NoCG
    /\ budget = NoBudget
    /\ cascade = NoCascade
    /\ subPass = NoSubPass
    /\ iso = NoIso
    /\ slots = NoSlots
    /\ getRoot = NoGetRoot
    /\ mesh = NoMesh
    /\ sink = NoSink
    /\ twice = NoTwice
    /\ splat \in SplatRuns
    /\ centerCall = NoCenterCall
    /\ isoCall = NoIsoCall
    /\ residual = NoResidual
    /\ product = NoProduct
    /\ restricted = NoRestricted
    /\ loops = NoLoops
    /\ triangles = NoTriangles
    /\ refine = NoRefine

NextSplat ==
    \/ DensityPoint
    \/ DensityEnd
    \/ \E halves \in 0..(2 * SplatMaxDepth) : NormalPoint(halves)
    \/ NormalPointUnweighted
    \/ SetTreeReturn

SpecSplat == InitSplat /\ [][NextSplat]_vars

\* C20: a point for which SplatOrientedPoint reaches a node without children
\* before depth splatDepth is reported and skipped: no normal is splatted for
\* it, and it adds nothing to the point-weight sum, to the screening data or
\* to the count of points that setTree returns.
C20_ErrorSkipped ==
    splat.pc # "none" =>
        \A i \in splat.errors :
            /\ \A s \in splat.normals : s[1] # i
            /\ splat.added[i] = RZero
            /\ \A s \in splat.points : s[1] # i
            /\ i \notin splat.counted

\* setTree has returned a count that includes a point SplatOrientedPoint
\* reported, and -1 was added to the point-weight sum for it
C20_Diverges ==
    /\ splat.pc = "done"
    /\ \E i \in splat.errors :
            /\ splat.added[i] = RInt(-1)
            /\ i \in splat.counted
            /\ splat.ret = Len(splat.second)

\* what SplatOrientedPoint itself does for such a point: no normal is
\* splatted, and every other point has one
ErrorSplatsNothing ==
    splat.pc # "none" =>
        \A i \in splat.counted : i \in splat.errors <=> ~\E s \in splat.normals : s[1] = i

\* with screening the reported point is added to the screening data
ErrorScreened ==
    splat.pc # "none" /\ splat.constrainValues =>
        \A i \in splat.errors : \E s \in splat.points : s[1] = i

\* a stream that yields the same points after reset() never reaches the error
RestartedStreamNoError ==
    splat.pc # "none" /\ splat.second = splat.first => splat.errors = {}

\* the count returned is the number of points read, the sum is that of the
\* values SplatOrientedPoint returned
CountsEveryPoint ==
    splat.pc = "done" => splat.ret = Len(splat.second) /\ splat.pointWeightSum = Sum(splat.added)

(***************************************************************************)
(* getCenterValue.  The function takes isInterior as an argument; it is    *)
(* applied with both values to one leaf of depth 3 whose offsets lie in    *)
(* 2..5, where the basis functions are not changed by the boundary.  A     *)
(* call c holds the depth and offsets of the leaf, the positions of its    *)
(* two neighbourhoods that hold a node, and the fields the function reads, *)
(* by offsets: solution for the depth of the leaf, pSolution and           *)
(* metSolution for the coarser depth.                                      *)
(***************************************************************************)
\* CenterEvaluator1::value(depth, off, off1, false, childParent): the function
\* of offset off1 (of the depth, of the coarser depth when childParent) at
\* the centre of the node of offset off: the degree-2 B-spline, 1/8, 3/4,
\* 1/8 on the cells of its support
EvaluatorValue(depth, off, off1, childParent) ==
    IF childParent
    THEN LET k == off1 - (off \div 2)
         IN IF k < -1 \/ k > 1 THEN RZero
            ELSE IF off % 2 = 0 THEN <<RNorm(9, 32), RNorm(11, 16), RNorm(1, 32)>>[k + 2]
            ELSE <<RNorm(1, 32), RNorm(11, 16), RNorm(9, 32)>>[k + 2]
    ELSE LET k == off1 - off
         IN IF k < -1 \/ k > 1 THEN RZero
            ELSE <<RNorm(1, 8), RNorm(3, 4), RNorm(1, 8)>>[k + 2]

\* SetCenterEvaluationStencil(evaluator, depth).at(x, y, z)
SetCenterEvaluationStencil(depth, x, y, z) ==
    IF depth < 2 THEN RZero
    ELSE LET c == 2 ^ (depth - 1)
         IN RMul(RMul(EvaluatorValue(depth, c, x + c - 1, FALSE),
                      EvaluatorValue(depth, c, y + c - 1, FALSE)),
                 EvaluatorValue(depth, c, z + c - 1, FALSE))

\* SetCenterEvaluationStencils(evaluator, depth).at(cx, cy, cz).at(x, y, z)
SetCenterEvaluationStencils(depth, cx, cy, cz, x, y, z) ==
    IF depth < 3 THEN RZero
    ELSE LET c == 2 ^ (depth - 1)
         IN RMul(RMul(EvaluatorValue(depth, c + cx, x + c \div 2 - 1, TRUE),
                      EvaluatorValue(depth, c + cy, y + c \div 2 - 1, TRUE)),
                 EvaluatorValue(depth, c + cz, z + c \div 2 - 1, TRUE))

\* the positions [i][j][k] of a 3x3x3 neighbourhood in loop order
Positions27 == [p \in 1..27 |-> <<(p - 1) \div 9, ((p - 1) \div 3) % 3, (p - 1) % 3>>]

\* the offsets of neighbors(d).neighbors[i][j][k] and of
\* neighbors(d - 1).neighbors[i][j][k], Null when there is no such node
SameDepthNeighbor(c, q) ==
    IF q \in c.present
    THEN <<c.off[1] + q[1] - 1, c.off[2] + q[2] - 1, c.off[3] + q[3] - 1>>
    ELSE Null

ParentDepthNeighbor(c, q) ==
    IF q \in c.pPresent
    THEN <<c.off[1] \div 2 + q[1] - 1, c.off[2] \div 2 + q[2] - 1, c.off[3] \div 2 + q[3] - 1>>
    ELSE Null

\* nodeData.solution of the node of depth d at offsets o, that of the node
\* of depth d - 1, and metSolution of the latter
SolutionAt(c, o) == c.solution[o]

ParentSolutionAt(c, o) == c.pSolution[o]

MetSolutionAt(c, o) == c.metSolution[o]

\* what the loops of the interior path add for position q: the stencils
InteriorTerm(c, q) ==
    LET n == SameDepthNeighbor(c, q)
    IN IF n = Null THEN RZero
       ELSE RMul(SolutionAt(c, n), SetCenterEvaluationStencil(c.d, q[1], q[2], q[3]))

InteriorParentTerm(c, q) ==
    LET n == ParentDepthNeighbor(c, q)
    IN IF n = Null THEN RZero
       ELSE RMul(MetSolutionAt(c, n),
                 SetCenterEvaluationStencils(c.d, c.off[1] % 2, c.off[2] % 2, c.off[3] % 2,
                                             q[1], q[2], q[3]))

\* what the loops of the other path add for position q: the third factor
\* is evaluator.value(d, off[1], _off[1], false, false) once more, and the
\* coarser term reads nodeData.solution with the same calls
BoundaryTerm(c, q) ==
    LET n == SameDepthNeighbor(c, q)
    IN IF n = Null THEN RZero
       ELSE RMul(SolutionAt(c, n),
                 RMul(RMul(EvaluatorValue(c.d, c.off[1], n[1], FALSE),
                           EvaluatorValue(c.d, c.off[2], n[2], FALSE)),
                      EvaluatorValue(c.d, c.off[2], n[2], FALSE)))

BoundaryParentTerm(c, q) ==
    LET n == ParentDepthNeighbor(c, q)
    IN IF n = Null THEN RZero
       ELSE RMul(ParentSolutionAt(c, n),
                 RMul(RMul(EvaluatorValue(c.d, c.off[1], n[1], FALSE),
                           EvaluatorValue(c.d, c.off[2], n[2], FALSE)),
                      EvaluatorValue(c.d, c.off[2], n[2], FALSE)))

\* getCenterValue(neighborKey, node, metSolution, evaluator, stencil, pStencil,
\* isInterior) with the stencils of the depth and of the child index of the node
getCenterValue(c, isInterior) ==
    With(Sum([p \in 1..27 |-> IF isInterior THEN InteriorTerm(c, Positions27[p])
                              ELSE BoundaryTerm(c, Positions27[p])]),
         LAMBDA same :
             IF c.d > c.minDepth
             THEN RAdd(same, Sum([p \in 1..27 |->
                                    IF isInterior THEN InteriorParentTerm(c, Positions27[p])
                                    ELSE BoundaryParentTerm(c, Positions27[p])]))
             ELSE same)

\* the positions of a neighbourhood
Cells27 == (0..2) \X (0..2) \X (0..2)

\* the largest coefficient of the solutions
MaxSlope == 1

\* the calls: the leaf, its two neighbourhoods and the fields, where the
\* solution of a node is a linear function of its offsets (sol, pSol) and
\* metSolution is the solution raised by shift
CenterCalls ==
    { [pc |-> "call", d |-> 3, off |-> off, minDepth |-> minDepth, present |-> Cells27 \ gone,
       pPresent |-> Cells27 \ gone, sol |-> sol, pSol |-> <<p, p, p>>, shift |-> shift,
       done |-> {}, value |-> [b \in BOOLEAN |-> RZero]] :
        off \in (2..3) \X (2..3) \X (2..3), minDepth \in {0, 3},
        gone \in {{}, {<<0, 0, 0>>}}, sol \in (0..MaxSlope) \X (0..MaxSlope) \X (0..MaxSlope),
        p \in 0..MaxSlope, shift \in 0..MaxSlope }

\* the arguments of the call k
CenterCallOf(k) ==
    LET near(o) ==
            ((o[1] - 1)..(o[1] + 1)) \X ((o[2] - 1)..(o[2] + 1)) \X ((o[3] - 1)..(o[3] + 1))
        up == <<k.off[1] \div 2, k.off[2] \div 2, k.off[3] \div 2>>
    IN [d |-> k.d, off |-> k.off, minDepth |-> k.minDepth, present |-> k.present,
        pPresent |-> k.pPresent,
        solution |-> [o \in near(k.off) |->
                        RInt(k.sol[1] * o[1] + k.sol[2] * o[2] + k.sol[3] * o[3])],
        pSolution |-> [o \in near(up) |->
                         RInt(k.pSol[1] * o[1] + k.pSol[2] * o[2] + k.pSol[3] * o[3])],
        metSolution |-> [o \in near(up) |->
                           RInt(k.pSol[1] * o[1] + k.pSol[2] * o[2] + k.pSol[3] * o[3] + k.shift)]]

\* getCenterValue called with isInterior
CenterValue(isInterior) ==
    /\ centerCall.pc = "call"
    /\ isInterior \notin centerCall.done
    /\ centerCall' = [centerCall EXCEPT
                        !.done = @ \cup {isInterior},
                        !.value[isInterior] = With(CenterCallOf(centerCall), LAMBDA c :
                                                      getCenterValue(c, isInterior))]
    /\ lastCall' = "getCenterValue"
    /\ UNCHANGED centerCallRest

InitCenter ==
    /\ tree = {}
    /\ nodeIndex = [n \in {Root} |-> -1]
    /\ treeNodes = <<>>
    /\ nodeCount = <<>>
    /\ maxDepth = 0
    /\ lastCall = "none"
    /\ cData = NoTable
    /\ eData = NoTable
    /\ tableArgs = NoArgs
    /\ NoMatrix
    /\ sampleDepth = 0
    /\ constraints = <<>>
    /\ coefficients = <<>>
    /\ cg = NoCG
    /\ budget = NoBudget
    /\ cascade = NoCascade
    /\ subPass = NoSubPass
    /\ iso = NoIso
    /\ slots = NoSlots
    /\ getRoot = NoGetRoot
    /\ mesh = NoMesh
    /\ sink = NoSink
    /\ twice = NoTwice
    /\ splat = NoSplat
    /\ centerCall \in CenterCalls
    /\ isoCall = NoIsoCall
    /\ residual = NoResidual
    /\ product = NoProduct
    /\ restricted = NoRestricted
    /\ loops = NoLoops
    /\ triangles = NoTriangles
    /\ refine = NoRefine

NextCenter == \E isInterior \in BOOLEAN : CenterValue(isInterior)

SpecCenter == InitCenter /\ [][NextCenter]_vars

\* the value the claim describes: solution times the product of the centre
\* values along x, y and z, and metSolution times the values of the functions
\* of the coarser depth at the centre of the leaf
StatedValue(c) ==
    LET same(q) ==
            LET n == SameDepthNeighbor(c, q)
            IN IF n = Null THEN RZero
               ELSE RMul(SolutionAt(c, n),
                         RMul(RMul(EvaluatorValue(c.d, c.off[1], n[1], FALSE),
                                   EvaluatorValue(c.d, c.off[2], n[2], FALSE)),
                              EvaluatorValue(c.d, c.off[3], n[3], FALSE)))
        coarser(q) ==
            LET n == ParentDepthNeighbor(c, q)
            IN IF n = Null \/ c.d <= c.minDepth THEN RZero
               ELSE RMul(MetSolutionAt(c, n),
                         RMul(RMul(EvaluatorValue(c.d, c.off[1], n[1], TRUE),
                                   EvaluatorValue(c.d, c.off[2], n[2], TRUE)),
                              EvaluatorValue(c.d, c.off[3], n[3], TRUE)))
    IN RAdd(Sum([p \in 1..27 |-> same(Positions27[p])]),
            Sum([p \in 1..27 |-> coarser(Positions27[p])]))

\* the path of the stencils computes the stated value
InteriorAsStated ==
    TRUE \in centerCall.done => centerCall.value[TRUE] = StatedValue(CenterCallOf(centerCall))

\* the two paths agree when every solution is zero
SameWhenZero ==
    (centerCall.done = BOOLEAN /\ centerCall.sol = <<0, 0, 0>> /\ centerCall.pSol = <<0, 0, 0>>
        /\ (centerCall.shift = 0 \/ centerCall.d <= centerCall.minDepth))
        => centerCall.value[TRUE] = centerCall.value[FALSE]

\* C28: getCenterValue computes the same value with isInterior false (the
\* calls of the evaluator) as with isInterior true (the stencils) for the
\* same neighbourhoods: every solution times the product of the centre values
\* along x, y and z, the third from the z offsets, and metSolution for the
\* neighbours of the coarser depth.
C28_SamePaths ==
    centerCall.done = BOOLEAN =>
        /\ centerCall.value[FALSE] = centerCall.value[TRUE]
        /\ centerCall.value[FALSE] = StatedValue(CenterCallOf(centerCall))

\* a solution that changes along z alone, the coarser depth left out
\* (d <= minDepth_), all 27 neighbours there: the stencils give the solution
\* of the leaf, the calls of the evaluator another value
C28_Diverges ==
    /\ centerCall.done = BOOLEAN
    /\ centerCall.sol = <<0, 0, 1>>
    /\ centerCall.d <= centerCall.minDepth
    /\ centerCall.present = Cells27
    /\ centerCall.value[TRUE] = SolutionAt(CenterCallOf(centerCall), centerCall.off)
    /\ centerCall.value[FALSE] # centerCall.value[TRUE]

(***************************************************************************)
(* GetIsoValue.  The parallel loops write disjoint slots or are            *)
(* reductions of exact sums; a pass of a loop over the depths is one step. *)
(* maxDepth of the function is tree_.maxDepth(), sNodes_.maxDepth - 1.     *)
(* The boundary is fixed, so that minDepth_ may be 0.                      *)
(***************************************************************************)
\* isInterior of GetIsoValue for a node of depth d and offsets off
IsInteriorCenter(bt, d, off) ==
    LET mn == IF bt = "None" /\ d >= 2 THEN 2 ^ (d - 2) + 2 ELSE 2
        mx == 2 ^ d - mn
    IN \A k \in 1..3 : off[k] >= mn /\ off[k] < mx

\* the arguments of getCenterValue(nKey, node, metSolution, ..): the
\* neighbours that getNeighbors3(node) has set and the fields of the nodes
CenterCallAt(node, solution, metSolution, minDepth) ==
    LET at(n, q) == Neighbors3(n, q[1], q[2], q[3])
        present == {q \in Cells27 : at(node, q) # Null}
        pPresent == IF Depth(node) = 0 THEN {}
                    ELSE {q \in Cells27 : at(Parent(node), q) # Null}
        field(n, S, vec) == [o \in {OffsetOf(at(n, q)) : q \in S} |->
                               vec[nodeIndex[<<Depth(n), o[1], o[2], o[3]>>] + 1]]
    IN [d |-> Depth(node), off |-> OffsetOf(node), minDepth |-> minDepth,
        present |-> present, pPresent |-> pPresent,
        solution |-> field(node, present, solution),
        pSolution |-> IF pPresent = {} THEN <<>> ELSE field(Parent(node), pPresent, solution),
        metSolution |-> IF pPresent = {} THEN <<>>
                        ELSE field(Parent(node), pPresent, metSolution)]

\* value of the node at slot i in the loop of lines 2606-2639
CenterValueOf(i, c) ==
    LET node == TreeNode(i)
    IN IF HasChildren(tree, node)
       THEN RDiv(Sum([k \in 1..CubeCorners |-> c.centerValues[nodeIndex[Child(node, k - 1)] + 1]]),
                 RInt(CubeCorners))
       ELSE getCenterValue(CenterCallAt(node, c.solution, c.metSolution, c.minDepth),
                           IsInteriorCenter(boundaryType, Depth(node), OffsetOf(node)))

\* UpSample(depth, sNodes, coarseCoefficients, fineCoefficients) on two
\* pointers into vec: coarse and fine are their places in vec
UpSampleInto(depth, minDepth, coarse, fine, vec) ==
    IF depth <= minDepth THEN vec
    ELSE With(UpSampleGeneric(depth, boundaryType), LAMBDA calls :
            LET add(v, c) ==
                    [v EXCEPT ![fine + c.i - nodeCount[depth] + 1] =
                        RAdd(@, RMul(v[coarse + c.node - nodeCount[depth - 1] + 1],
                                     RMul(RMul(c.v[1], c.v[2]), c.v[3])))]
                sum[k \in 0..Len(calls)] == IF k = 0 THEN vec ELSE add(sum[k - 1], calls[k])
            IN sum[Len(calls)])

\* the places of vec that UpSample reads and writes through the two pointers
UpSamplePlaces(depth, minDepth, coarse, fine) ==
    IF depth <= minDepth THEN {}
    ELSE {fine + i - nodeCount[depth] : i \in DepthSlots(depth)}
            \cup {coarse + i - nodeCount[depth - 1] : i \in DepthSlots(depth - 1)}

\* the number of nodes given children below a full tree
MaxIsoInternal == 1

\* the largest solution and the largest weight of a node
MaxIsoField == 1

\* the trees: full to minDepth_ and refined further
IsoValueTrees == {FullTree(k) \cup S : k \in 0..1, S \in TreesUpTo(MaxIsoInternal + 1)}

\* what an element of nodeCount outside the array may hold
StrayCounts == {-1, 0, 1}

\* GetIsoValue before its first line: the solutions and the weights
\* (centerWeightContribution) are the same for the nodes of a depth
IsoValueCalls(t, md) ==
    { [pc |-> "enter", minDepth |-> minDepth, d |-> 0,
       solution |-> [i \in 1..nodeCount[md] |-> RInt(s[Depth(TreeNode(i - 1)) + 1])],
       weight |-> [i \in 1..nodeCount[md] |-> RInt(w[Depth(TreeNode(i - 1)) + 1])],
       metSolution |-> <<>>, centerValues |-> <<>>, isoValue |-> RZero, weightSum |-> RZero,
       ret |-> RZero, counts |-> {}, places |-> {}] :
        minDepth \in {k \in 0..1 : FullTree(k) \subseteq t},
        s \in [1..md -> 0..MaxIsoField], w \in [1..md -> 0..MaxIsoField] }

\* lines 2584-2599: the stencils, metSolution and centerValues
IsoValueEnter ==
    /\ isoCall.pc = "enter"
    /\ isoCall' = [isoCall EXCEPT
            !.pc = "upsample",
            !.d = isoCall.minDepth,
            !.metSolution = [i \in 1..nodeCount[maxDepth - 1] |->
                               IF i - 1 >= nodeCount[isoCall.minDepth] THEN isoCall.solution[i]
                               ELSE RZero],
            !.centerValues = ZeroVector(nodeCount[maxDepth]),
            !.counts = {maxDepth - 1, maxDepth, isoCall.minDepth}]
    /\ lastCall' = "GetIsoValue"
    /\ UNCHANGED isoCallRest

\* one pass of the loop of lines 2600-2602: the arguments are evaluated,
\* nodeCount[d - 1] with them, and UpSample is called; an element outside
\* nodeCount holds any value
IsoValueUpSample ==
    /\ isoCall.pc = "upsample"
    /\ isoCall.d < maxDepth - 1
    /\ \E coarse \in IF isoCall.d - 1 \in DOMAIN nodeCount THEN {nodeCount[isoCall.d - 1]}
                     ELSE StrayCounts :
          isoCall' = [isoCall EXCEPT
              !.d = isoCall.d + 1,
              !.counts = @ \cup {isoCall.d - 1, isoCall.d},
              !.places = @ \cup UpSamplePlaces(isoCall.d, isoCall.minDepth, coarse,
                                               nodeCount[isoCall.d]),
              !.metSolution = UpSampleInto(isoCall.d, isoCall.minDepth, coarse,
                                           nodeCount[isoCall.d], isoCall.metSolution)]
    /\ lastCall' = "UpSample"
    /\ UNCHANGED isoCallRest

\* the loop of lines 2600-2602 ends
IsoValueUpSampled ==
    /\ isoCall.pc = "upsample"
    /\ isoCall.d >= maxDepth - 1
    /\ isoCall' = [isoCall EXCEPT !.pc = "values", !.d = maxDepth - 1]
    /\ lastCall' = "GetIsoValue"
    /\ UNCHANGED isoCallRest

\* one pass of the loop of lines 2603-2640: the centre values of the nodes of
\* depth d, and the two sums over the nodes with a weight
IsoValueDepth ==
    /\ isoCall.pc = "values"
    /\ isoCall.d >= isoCall.minDepth
    /\ \E values \in {v \in {[k \in 1..Len(isoCall.centerValues) |->
                               IF k - 1 \in DepthSlots(isoCall.d)
                               THEN CenterValueOf(k - 1, isoCall)
                               ELSE isoCall.centerValues[k]]} : v = v} :
          isoCall' = [isoCall EXCEPT
              !.d = isoCall.d - 1,
              !.centerValues = values,
              !.counts = @ \cup {isoCall.d, isoCall.d + 1},
              !.isoValue = RAdd(@, Sum([k \in 1..Len(values) |->
                              IF k - 1 \in DepthSlots(isoCall.d) /\ isoCall.weight[k] # RZero
                              THEN RMul(values[k], isoCall.weight[k]) ELSE RZero])),
              !.weightSum = RAdd(@, Sum([k \in 1..Len(values) |->
                              IF k - 1 \in DepthSlots(isoCall.d) THEN isoCall.weight[k]
                              ELSE RZero]))]
    /\ lastCall' = "getCenterValue"
    /\ UNCHANGED isoCallRest

\* lines 2641-2642: return isoValue / weightSum - r
IsoValueReturn ==
    /\ isoCall.pc = "values"
    /\ isoCall.d < isoCall.minDepth
    /\ isoCall' = [isoCall EXCEPT
            !.pc = "done",
            !.ret = RSub(RDiv(isoCall.isoValue, isoCall.weightSum),
                         IF boundaryType = "Dirichlet" THEN RNorm(1, 2) ELSE RZero)]
    /\ lastCall' = "return"
    /\ UNCHANGED isoCallRest

InitIsoValue ==
    /\ boundaryType \in {"Dirichlet", "Neumann"}
    /\ tree \in IsoValueTrees
    /\ maxDepth = TreeMaxDepth(tree) + 1
    /\ treeNodes = SetTreeNodes(tree).treeNodes
    /\ nodeCount = SetTreeNodes(tree).nodeCount
    /\ nodeIndex = SetNodeIndex(tree, treeNodes, nodeCount[maxDepth])
    /\ lastCall = "set"
    /\ cData = NoTable
    /\ eData = NoTable
    /\ tableArgs = NoArgs
    /\ sysDepth = 0
    /\ matrix = <<>>
    /\ mul = NoMul
    /\ sampleDepth = 0
    /\ constraints = <<>>
    /\ coefficients = <<>>
    /\ cg = NoCG
    /\ budget = NoBudget
    /\ cascade = NoCascade
    /\ subPass = NoSubPass
    /\ iso = NoIso
    /\ slots = NoSlots
    /\ getRoot = NoGetRoot
    /\ mesh = NoMesh
    /\ sink = NoSink
    /\ twice = NoTwice
    /\ splat = NoSplat
    /\ centerCall = NoCenterCall
    /\ isoCall \in IsoValueCalls(tree, maxDepth)
    /\ residual = NoResidual
    /\ product = NoProduct
    /\ restricted = NoRestricted
    /\ loops = NoLoops
    /\ triangles = NoTriangles
    /\ refine = NoRefine

NextIsoValue ==
    \/ IsoValueEnter
    \/ IsoValueUpSample
    \/ IsoValueUpSampled
    \/ IsoValueDepth
    \/ IsoValueReturn

SpecIsoValue == InitIsoValue /\ [][NextIsoValue]_vars

\* with a weight sum other than zero the value returned is the weighted
\* average less the offset
AverageReturned ==
    (isoCall.pc = "done" /\ isoCall.weightSum # RZero) =>
        /\ IsFinite(isoCall.ret)
        /\ RAdd(isoCall.ret, IF boundaryType = "Dirichlet" THEN RNorm(1, 2) ELSE RZero)
             = RDiv(isoCall.isoValue, isoCall.weightSum)

\* C21: when the sum of the centre weights over all nodes is zero GetIsoValue
\* returns the fallback value, 0 or 0.5 under Dirichlet, and does not divide
\* by the zero weight sum.
C21_Fallback ==
    (isoCall.pc = "done" /\ isoCall.weightSum = RZero) =>
        isoCall.ret = (IF boundaryType = "Dirichlet" THEN RNorm(1, 2) ELSE RZero)

\* every weight is zero: 0 / 0 is returned, less the offset
C21_Diverges ==
    /\ isoCall.pc = "done"
    /\ \A k \in 1..Len(isoCall.weight) : isoCall.weight[k] = RZero
    /\ isoCall.weightSum = RZero
    /\ isoCall.isoValue = RZero
    /\ IsNaN(isoCall.ret)

\* metSolution is read and written inside its bounds
MetSolutionInBounds ==
    isoCall.pc # "none" => isoCall.places \subseteq 0..(nodeCount[maxDepth - 1] - 1)

\* with minDepth_ >= 1 every element of nodeCount that is read exists
CountsInBoundsAboveZero ==
    (isoCall.pc # "none" /\ isoCall.minDepth >= 1) => isoCall.counts \subseteq DOMAIN nodeCount

\* C30: GetIsoValue never indexes sNodes_.nodeCount or metSolution outside
\* their bounds, for every minDepth >= 0 and maxDepth >= minDepth; the loop
\* of the up-sampling that starts at d = minDepth_ does not evaluate
\* nodeCount[d - 1] with d = 0.
C30_InBounds ==
    isoCall.pc # "none" =>
        /\ isoCall.counts \subseteq DOMAIN nodeCount
        /\ isoCall.places \subseteq 0..(nodeCount[maxDepth - 1] - 1)

\* minDepth_ = 0 in a tree with children: the first pass of the loop has
\* evaluated nodeCount[-1]
C30_Diverges ==
    /\ isoCall.pc = "done"
    /\ isoCall.minDepth = 0
    /\ maxDepth - 1 >= 1
    /\ -1 \in isoCall.counts

(***************************************************************************)
(* One pass through the loop of Solve from any state at the head of the    *)
(* loop in which r = b - A x holds.  Conjugate gradients in exact          *)
(* arithmetic end on a system of two rows after two passes, so that the    *)
(* passes with ii % 50 = 49, which rounding lets the program reach, are    *)
(* entered here at the head of the loop.                                   *)
(***************************************************************************)
\* the period of the passes that compute r from x (ii % 50 == 49)
RefreshPeriod == 50

\* A x as Solve computes it
Product(c, x) == Multiply(c.A, x, c.addDCTerm, c.threads)

\* the state at the head of the loop with r = b - A x, delta_new = r . r and
\* eps = 0
LoopHead(A, b, iters, x, d, ii) ==
    LET r == Residual(b, Multiply(A, x, FALSE, MaxThreads))
    IN  [pc |-> "loop", A |-> A, b |-> b, iters |-> iters, x |-> x, eps |-> RZero,
         threads |-> MaxThreads, addDCTerm |-> FALSE, r |-> r, d |-> d,
         deltaNew |-> DotProduct(r, r), delta0 |-> RInt(1), ii |-> ii, ret |-> -1,
         deltas |-> <<>>, before |-> <<>>]

\* the pass that starts in c divides by neither zero: delta_new > 0 and a
\* direction d with d . A d # 0
CanIterate(c) ==
    /\ c.deltaNew # RZero
    /\ DotProduct(c.d, Product(c, c.d)) # RZero

\* alpha of the pass that starts in c
StepLength(c) == RDiv(c.deltaNew, DotProduct(c.d, Product(c, c.d)))

\* one pass through the loop
ResidualIterate ==
    /\ residual.pc = "loop"
    /\ SolveContinues(residual)
    /\ residual' = [SolveBody(residual) EXCEPT
            !.pc = "after",
            !.before = [x |-> residual.x, d |-> residual.d, ii |-> residual.ii,
                        alpha |-> StepLength(residual)]]
    /\ lastCall' = "Solve"
    /\ UNCHANGED residualRest

\* the loop ends: return ii
ResidualReturn ==
    /\ residual.pc = "loop"
    /\ ~SolveContinues(residual)
    /\ residual' = [residual EXCEPT !.pc = "done", !.ret = residual.ii]
    /\ lastCall' = "return"
    /\ UNCHANGED residualRest

InitResidual ==
    /\ tree = {}
    /\ nodeIndex = [n \in {Root} |-> -1]
    /\ treeNodes = <<>>
    /\ nodeCount = <<>>
    /\ maxDepth = 0
    /\ lastCall = "none"
    /\ cData = NoTable
    /\ eData = NoTable
    /\ tableArgs = NoArgs
    /\ NoMatrix
    /\ sampleDepth = 0
    /\ constraints = <<>>
    /\ coefficients = <<>>
    /\ cg = NoCG
    /\ budget = NoBudget
    /\ cascade = NoCascade
    /\ subPass = NoSubPass
    /\ iso = NoIso
    /\ slots = NoSlots
    /\ getRoot = NoGetRoot
    /\ mesh = NoMesh
    /\ sink = NoSink
    /\ twice = NoTwice
    /\ splat = NoSplat
    /\ centerCall = NoCenterCall
    /\ isoCall = NoIsoCall
    /\ \E A \in SolveMatrices, b \in SolveVectors,
          iters \in {RefreshPeriod - 1, RefreshPeriod},
          x \in {<<RInt(u), RInt(v)>> : u, v \in 0..1},
          d \in {<<RInt(u), RInt(v)>> : u, v \in -1..1},
          ii \in {0, RefreshPeriod - 2, RefreshPeriod - 1} :
            /\ residual = LoopHead(A, b, iters, x, d, ii)
            /\ CanIterate(residual)
    /\ product = NoProduct
    /\ restricted = NoRestricted
    /\ loops = NoLoops
    /\ triangles = NoTriangles
    /\ refine = NoRefine

NextResidual ==
    \/ ResidualIterate
    \/ ResidualReturn

SpecResidual == InitResidual /\ [][NextResidual]_vars

\* x has been advanced by alpha * d k times in the pass
Advanced(c, k) == c.x = AddScaled(c.before.x, c.before.d, RMul(RInt(k), c.before.alpha))

\* r = b - A x
ResidualExact(c) == c.r = Residual(c.b, Product(c, c.x))

\* a pass with ii % 50 # 49 advances x once and keeps r = b - A x
IncrementalKept ==
    (residual.pc = "after" /\ residual.before.ii % RefreshPeriod # RefreshPeriod - 1) =>
        Advanced(residual, 1) /\ ResidualExact(residual)

\* a pass with ii % 50 = 49 computes r from x advanced once and then advances
\* x again
RefreshedThenAdvanced ==
    (residual.pc = "after" /\ residual.before.ii % RefreshPeriod = RefreshPeriod - 1) =>
        /\ Advanced(residual, 2)
        /\ residual.r = Residual(residual.b,
                                 Product(residual, AddScaled(residual.before.x, residual.before.d,
                                                             residual.before.alpha)))

RECURSIVE TimesRows(_, _, _, _, _)
TimesRows(R, M, V, lo, hi) ==
    IF lo > hi THEN R
    ELSE TimesRows(ScatterRow(R, lo - 1, M[lo], V, 1, Len(M[lo])), M, V, lo + 1, hi)

\* operator*: M * V
Times(M, V) == TimesRows(ZeroVector(Len(M)), M, V, 1, Len(M))

\* the entries k .. Len(row) of row i in the branch without the DC term:
\* acc += e.Value * in[e.N] and outs[e.N] += e.Value * in[i]
RECURSIVE AccumulateRow(_, _, _, _, _)
AccumulateRow(st, i, row, in, k) ==
    IF k > Len(row) THEN st
    ELSE AccumulateRow([acc |-> RAdd(st.acc, RMul(row[k].Value, in[row[k].N + 1])),
                        outs |-> [st.outs EXCEPT ![row[k].N + 1] =
                                     RAdd(@, RMul(row[k].Value, in[i + 1]))]],
                       i, row, in, k + 1)

\* row i in the branch without the DC term, outs[i] += acc at its end
MultiplyRow(outs, i, row, in) ==
    LET st == AccumulateRow([acc |-> RZero, outs |-> outs], i, row, in, 1)
    IN [st.outs EXCEPT ![i + 1] = RAdd(@, st.acc)]

\* the cells of the scratch vector that row i writes
RowCells(i, row) == {i} \cup {row[k].N : k \in 1..Len(row)}

\* out[i] that adds to what out held
CombineCellKeeping(prev, dcTerm, column) == RAdd(prev, Sum(column))

\* out[i] = dcTerm; out[i] += OutScratch[t][i] for every t
CombineCell(prev, dcTerm, column) == RAdd(dcTerm, Sum(column))

\* the largest element of in and of what out holds before the call
MaxIn == 1

\* Multiply(in, out, false, threads) before its first line, with the thread
\* that takes each row
ProductCalls ==
    {[pc |-> "enter", M |-> M, in |-> in, threads |-> threads, owner |-> owner, out |-> out,
      outIn |-> out, scratch |-> <<>>, pending |-> {}, touched |-> {}] :
        M \in SolveMatrices,
        in \in {<<RInt(u), RInt(v)>> : u, v \in 0..MaxIn},
        out \in {<<RInt(u), RInt(u)>> : u \in 0..MaxIn},
        threads \in 1..MaxThreads,
        owner \in UNION {[0..1 -> 0..(k - 1)] : k \in 1..MaxThreads}}

\* lines 50-52: the scratch vectors
ProductEnter ==
    /\ product.pc = "enter"
    /\ product' = [product EXCEPT
            !.pc = "rows",
            !.scratch = [t \in 1..product.threads |-> ZeroVector(Len(product.in))],
            !.pending = 0..(Len(product.M) - 1)]
    /\ lastCall' = "Multiply"
    /\ UNCHANGED productRest

\* lines 53-71: the thread of row i adds the row to its scratch vector
ProductRow(i) ==
    /\ product.pc = "rows"
    /\ i \in product.pending
    /\ LET t == product.owner[i]
       IN product' = [product EXCEPT
            !.pending = @ \ {i},
            !.scratch[t + 1] = MultiplyRow(@, i, product.M[i + 1], product.in),
            !.touched = @ \cup {<<t, t, cell>> : cell \in RowCells(i, product.M[i + 1])}]
    /\ lastCall' = "row"
    /\ UNCHANGED productRest

\* lines 72-83: the scratch vectors combined into out
ProductCombine ==
    /\ product.pc = "rows"
    /\ product.pending = {}
    /\ product' = [product EXCEPT
            !.pc = "done",
            !.out = [i \in 1..Len(product.out) |->
                        CombineCell(product.out[i], DCTerm(product.in, FALSE),
                                    [t \in 1..product.threads |-> product.scratch[t][i]])]]
    /\ lastCall' = "combine"
    /\ UNCHANGED productRest

InitProduct ==
    /\ tree = {}
    /\ nodeIndex = [n \in {Root} |-> -1]
    /\ treeNodes = <<>>
    /\ nodeCount = <<>>
    /\ maxDepth = 0
    /\ lastCall = "none"
    /\ cData = NoTable
    /\ eData = NoTable
    /\ tableArgs = NoArgs
    /\ NoMatrix
    /\ sampleDepth = 0
    /\ constraints = <<>>
    /\ coefficients = <<>>
    /\ cg = NoCG
    /\ budget = NoBudget
    /\ cascade = NoCascade
    /\ subPass = NoSubPass
    /\ iso = NoIso
    /\ slots = NoSlots
    /\ getRoot = NoGetRoot
    /\ mesh = NoMesh
    /\ sink = NoSink
    /\ twice = NoTwice
    /\ splat = NoSplat
    /\ centerCall = NoCenterCall
    /\ isoCall = NoIsoCall
    /\ residual = NoResidual
    /\ product \in {c \in ProductCalls : \A i \in DOMAIN c.owner : c.owner[i] < c.threads}
    /\ restricted = NoRestricted
    /\ loops = NoLoops
    /\ triangles = NoTriangles
    /\ refine = NoRefine

NextProduct ==
    \/ ProductEnter
    \/ \E i \in 0..(Len(product.M) - 1) : ProductRow(i)
    \/ ProductCombine

SpecProduct == InitProduct /\ [][NextProduct]_vars

\* touched holds <<thread, scratch vector, cell>> for every write: no cell
\* of a scratch vector is written by two threads
NoSharedCell ==
    \A a, b \in product.touched : (a[2] = b[2] /\ a[3] = b[3]) => a[1] = b[1]

\* the step-by-step product is what Multiply of the other sections returns
\* when the rows are assigned as schedule(static) assigns them
SameAsStatic ==
    (product.pc = "done"
        /\ \A t \in 0..(product.threads - 1) :
              LET chunk == Chunk(0, Len(product.M), product.threads, t)
              IN {i \in DOMAIN product.owner : product.owner[i] = t}
                    = {chunk[p] : p \in DOMAIN chunk})
      => product.out = Multiply(product.M, product.in, FALSE, product.threads)

\* C23: Multiply with addDCTerm = false writes into out, for every thread
\* count >= 1 and every assignment of rows to threads, the same vector as the
\* sequential operator*; no two threads accumulate into the same scratch
\* cell, and out is fully overwritten: what it held does not influence the
\* result.
C23_SameAsOperator ==
    /\ product.pc # "none" => NoSharedCell
    /\ product.pc = "done" => product.out = Times(product.M, product.in)

\* two threads, a row each, both with a contribution to the same element of
\* out, and out held something else before
C23_Witness ==
    /\ product.pc = "done"
    /\ product.threads = MaxThreads
    /\ product.owner[0] # product.owner[1]
    /\ product.outIn # ZeroVector(Len(product.in))
    /\ \E i \in 1..Len(product.out) :
          /\ \A t \in {product.owner[0], product.owner[1]} : product.scratch[t + 1][i] # RZero
          /\ product.out[i] # product.outIn[i]

(***************************************************************************)
(* The sub-domain pass once more: whose solution a node of the depth keeps *)
(* when the loop over the roots has ended.                                 *)
(***************************************************************************)
\* the slot of the root of the pass above the node at slot k
OwnRoot(k) == nodeIndex[Ancestor(TreeNode(k), subPass.d)]

\* the slots of the roots that collect the node at slot k
Collectors(k) ==
    { r \in DepthRange(subPass.d) : TreeNode(k) \in Adjacencies(TreeNode(r), subPass.depth) }

\* C24: after the sub-domain pass at depth d has gone through all coarse roots
\* in increasing order of their index, the solution of every node of depth d
\* that lies in some sub-domain is the one computed by the sub-domain of the
\* node's own ancestor at the depth of the roots; what sub-domains of roots
\* with a smaller index wrote before was an initial guess and is overwritten.
C24_OwnRootLast ==
    (subPass.pc = "done" /\ ~subPass.wholeDepth) =>
        \A k \in DepthRange(subPass.depth) :
            Collectors(k) # {} =>
                /\ WritersOf(k) # <<>>
                /\ WritersOf(k)[Len(WritersOf(k))] = OwnRoot(k)
                /\ \A j \in 1..(Len(WritersOf(k)) - 1) : WritersOf(k)[j] < OwnRoot(k)

\* a node collected by an earlier root, by its own and by a later one: the
\* first two assign it in turn, the later one leaves it alone
C24_Witness ==
    /\ subPass.pc = "done"
    /\ ~subPass.wholeDepth
    /\ \E k \in DepthRange(subPass.depth) :
          /\ \E r \in Collectors(k) : r > OwnRoot(k)
          /\ \E r \in Collectors(k) : r < OwnRoot(k)
          /\ Len(WritersOf(k)) >= 2
          /\ WritersOf(k)[1] < OwnRoot(k)
          /\ WritersOf(k)[Len(WritersOf(k))] = OwnRoot(k)

(***************************************************************************)
(* GetRestrictedFixedDepthLaplacian.  The rows are set by the parallel     *)
(* loop of GetFixedDepthLaplacianGeneric; getNode writes the Range3D of    *)
(* the row into `range`, which the closures hold by reference and all      *)
(* threads share, and setRow reads it.  The loop is scheduled statically:  *)
(* each thread takes the rows of its chunk in turn.                        *)
(***************************************************************************)
\* the elements of a set of integers in increasing order
RECURSIVE Ascending(_)
Ascending(S) ==
    IF S = {} THEN <<>>
    ELSE LET least == CHOOSE m \in S : \A k \in S : m <= k
         IN <<least>> \o Ascending(S \ {least})

\* SetMatrixRowBounds(node, rDepth, rOff, range)
SetMatrixRowBounds(node, rNode) ==
    LET shift == Depth(node) - Depth(rNode)
        width == 2 ^ shift
        off == [k \in 1..3 |-> OffsetOf(node)[k] - OffsetOf(rNode)[k] * 2 ^ shift]
        start(k) == IF off[k] < 0 THEN -off[k] ELSE 0
        end(k) == IF off[k] >= width THEN 4 - (off[k] - width) ELSE 5
    IN [xStart |-> start(1), xEnd |-> end(1), yStart |-> start(2), yEnd |-> end(2),
        zStart |-> start(3), zEnd |-> end(3)]

\* range after getNode(i) of GetRestrictedFixedDepthLaplacian
RangeOf(node, rNode) ==
    IF IsBelow(node, rNode) THEN FullRange ELSE SetMatrixRowBounds(node, rNode)

\* the threads of the loop over the rows
RestrictedThreads == 2

\* the trees: nodes of depth 3 in the ring of the first node of depth 1 and of
\* depth 2, without and with nodes of depth 3 beyond the ring
RestrictedTrees ==
    { {Root, <<1, 0, 1, 0>>, <<2, 0, 2, 0>>} \cup S : S \in { {}, {<<2, 0, 3, 0>>} } }

\* the largest entryCount of a call
MaxEntryCount == 8

\* GetRestrictedFixedDepthLaplacian(depth, .., entries, entryCount, rNode, ..)
\* before its first line, called for the sub-domain of a root that collects
\* nodes of the depth
RestrictedCalls(depth) ==
    { [pc |-> "call", depth |-> depth, rNode |-> TreeNode(r), threads |-> threads,
       entries |-> Ascending({nodeIndex[n] : n \in Adjacencies(TreeNode(r), depth)}),
       range |-> FullRange, rows |-> <<>>, at |-> <<>>] :
        r \in {s \in DepthRange(1) \cup DepthRange(2) :
                  /\ Adjacencies(TreeNode(s), depth) # {}
                  /\ Cardinality(Adjacencies(TreeNode(s), depth)) <= MaxEntryCount},
        threads \in 1..RestrictedThreads }

\* the rows of thread t (1 .. threads)
RowsOf(c, t) == Chunk(0, Len(c.entries), c.threads, t - 1)

\* line 1570: the nodes of the sub-domain are numbered 0 .. entryCount - 1
RestrictedEnter ==
    /\ restricted.pc = "call"
    /\ nodeIndex' = [n \in DOMAIN nodeIndex |->
                        IF \E i \in 1..Len(restricted.entries) : TreeNode(restricted.entries[i]) = n
                        THEN (CHOOSE i \in 1..Len(restricted.entries) :
                                 TreeNode(restricted.entries[i]) = n) - 1
                        ELSE nodeIndex[n]]
    /\ restricted' = [restricted EXCEPT
            !.pc = "rows",
            !.rows = [i \in 1..Len(restricted.entries) |-> <<>>],
            !.at = [t \in 1..restricted.threads |-> [phase |-> "get", pos |-> 1]]]
    /\ lastCall' = "GetRestrictedFixedDepthLaplacian"
    /\ UNCHANGED <<tree, treeNodes, nodeCount, maxDepth, restrictedKept>>

\* getNode(i) of thread t: range is written
RestrictedGetNode(t) ==
    /\ restricted.pc = "rows"
    /\ t \in DOMAIN restricted.at
    /\ restricted.at[t].phase = "get"
    /\ restricted.at[t].pos <= Len(RowsOf(restricted, t))
    /\ LET i == RowsOf(restricted, t)[restricted.at[t].pos]
       IN restricted' = [restricted EXCEPT
            !.range = RangeOf(TreeNode(restricted.entries[i + 1]), restricted.rNode),
            !.at[t].phase = "set"]
    /\ lastCall' = "getNode"
    /\ UNCHANGED restrictedRest

\* setRow of thread t: the row is set from range as it is now
RestrictedSetRow(t) ==
    /\ restricted.pc = "rows"
    /\ t \in DOMAIN restricted.at
    /\ restricted.at[t].phase = "set"
    /\ LET i == RowsOf(restricted, t)[restricted.at[t].pos]
       IN restricted' = [restricted EXCEPT
            !.rows[i + 1] = SetMatrixRow(TreeNode(restricted.entries[i + 1]), 0,
                                         restricted.range, TRUE),
            !.at[t] = [phase |-> "get", pos |-> restricted.at[t].pos + 1]]
    /\ lastCall' = "setRow"
    /\ UNCHANGED restrictedRest

\* line 1599: the loop over the rows has ended, nodeIndex = entries[i]
RestrictedReturn ==
    /\ restricted.pc = "rows"
    /\ \A t \in DOMAIN restricted.at :
          restricted.at[t].phase = "get" /\ restricted.at[t].pos > Len(RowsOf(restricted, t))
    /\ nodeIndex' = [n \in DOMAIN nodeIndex |->
                        IF \E i \in 1..Len(restricted.entries) : TreeNode(restricted.entries[i]) = n
                        THEN restricted.entries[CHOOSE i \in 1..Len(restricted.entries) :
                                                   TreeNode(restricted.entries[i]) = n]
                        ELSE nodeIndex[n]]
    /\ restricted' = [restricted EXCEPT !.pc = "done"]
    /\ lastCall' = "return"
    /\ UNCHANGED <<tree, treeNodes, nodeCount, maxDepth, restrictedKept>>

InitRestricted ==
    /\ boundaryType \in {"Dirichlet", "Neumann"}
    /\ tree \in RestrictedTrees
    /\ maxDepth = TreeMaxDepth(tree) + 1
    /\ treeNodes = SetTreeNodes(tree).treeNodes
    /\ nodeCount = SetTreeNodes(tree).nodeCount
    /\ nodeIndex = SetNodeIndex(tree, treeNodes, nodeCount[maxDepth])
    /\ lastCall = "set"
    /\ cData = NoTable
    /\ eData = NoTable
    /\ tableArgs = NoArgs
    /\ sysDepth = 0
    /\ matrix = <<>>
    /\ mul = NoMul
    /\ sampleDepth = 0
    /\ constraints = <<>>
    /\ coefficients = <<>>
    /\ cg = NoCG
    /\ budget = NoBudget
    /\ cascade = NoCascade
    /\ subPass = NoSubPass
    /\ iso = NoIso
    /\ slots = NoSlots
    /\ getRoot = NoGetRoot
    /\ mesh = NoMesh
    /\ sink = NoSink
    /\ twice = NoTwice
    /\ splat = NoSplat
    /\ centerCall = NoCenterCall
    /\ isoCall = NoIsoCall
    /\ residual = NoResidual
    /\ product = NoProduct
    /\ restricted \in RestrictedCalls(maxDepth - 1)
    /\ loops = NoLoops
    /\ triangles = NoTriangles
    /\ refine = NoRefine

NextRestricted ==
    \/ RestrictedEnter
    \/ \E t \in 1..RestrictedThreads : RestrictedGetNode(t)
    \/ \E t \in 1..RestrictedThreads : RestrictedSetRow(t)
    \/ RestrictedReturn

SpecRestricted == InitRestricted /\ [][NextRestricted]_vars

\* treeNodes[i].nodeIndex = i for every i
IndexIsSlot == \A i \in 0..(Len(treeNodes) - 1) : nodeIndex[TreeNode(i)] = i

\* the column indices of the rows set so far lie in [0, entryCount)
ColumnsInRange(c) ==
    \A i \in 1..Len(c.rows) : \A k \in 1..Len(c.rows[i]) :
        c.rows[i][k].N >= 0 /\ c.rows[i][k].N < Len(c.entries)

\* nodeIndex is what it was before the call once the function has returned
IndexRestored == restricted.pc \in {"call", "done"} => IndexIsSlot

\* with one thread every column index lies in [0, entryCount)
ColumnsInRangeOneThread ==
    (restricted.pc \in {"rows", "done"} /\ restricted.threads = 1) => ColumnsInRange(restricted)

\* C25: GetRestrictedFixedDepthLaplacian leaves the nodeIndex of every tree
\* node unchanged on return, treeNodes[i].nodeIndex = i holds again; while
\* the renumbering 0 .. entryCount - 1 is in force every column index written
\* into the restricted matrix lies in [0, entryCount).
C25_RestoredInRange ==
    /\ restricted.pc \in {"call", "done"} => IndexIsSlot
    /\ restricted.pc \in {"rows", "done"} => ColumnsInRange(restricted)

\* two threads: a row of the returned matrix has the index of a node outside
\* the sub-domain as a column, beyond entryCount
C25_Diverges ==
    /\ restricted.pc = "done"
    /\ restricted.threads = 2
    /\ IndexIsSlot
    /\ \E i \in 1..Len(restricted.rows) : \E k \in 1..Len(restricted.rows[i]) :
          LET N == restricted.rows[i][k].N
          IN /\ N >= Len(restricted.entries)
             /\ N \in DepthRange(restricted.depth)
             /\ \A j \in 1..Len(restricted.entries) : restricted.entries[j] # N

(***************************************************************************)
(* GetEdgeLoops.  An edge is the pair <<first.key, second.key>> of the     *)
(* keys of its two roots; a step is a pass of the outer loop up to the     *)
(* scan, one pass of the scan, or the end of the scan.                     *)
(***************************************************************************)
\* edges[k] = edges.back(); edges.pop_back() for the element at place k
SwapRemove(s, k) ==
    [p \in 1..(Len(s) - 1) |-> IF p = k THEN s[Len(s)] ELSE s[p]]

\* temp of the first branch with the edge taken as it is
TowardsFrontAsIs(edge, frontIdx) == edge

\* temp of the first branch: the edge turned so that it starts at frontIdx
TowardsFront(edge, frontIdx) ==
    IF edge[1] = frontIdx THEN edge ELSE <<edge[2], edge[1]>>

\* temp of the second branch: the edge turned so that it ends at backIdx
TowardsBack(edge, backIdx) ==
    IF edge[2] = backIdx THEN edge ELSE <<edge[2], edge[1]>>

\* a sequence back to front
Reversed(s) == [p \in 1..Len(s) |-> s[Len(s) + 1 - p]]

\* the keys of the roots are 1 .. MaxKey
MaxKey == 3

\* the longest list of edges
MaxEdges == 3

\* GetEdgeLoops(edges) before its first line
LoopCalls ==
    { [pc |-> "while", edges |-> edges, input |-> edges, out |-> <<>>, e |-> <<>>,
       front |-> <<>>, back |-> <<>>, frontIdx |-> 0, backIdx |-> 0, j |-> 0] :
        edges \in UNION { [1..n -> (1..MaxKey) \X (1..MaxKey)] : n \in 0..MaxEdges } }

\* lines 3274-3282: an edge is taken from the list
LoopsTake ==
    /\ loops.pc = "while"
    /\ Len(loops.edges) # 0
    /\ loops' = [loops EXCEPT
            !.pc = "scan",
            !.e = loops.edges[1],
            !.edges = SwapRemove(loops.edges, 1),
            !.front = <<>>,
            !.back = <<>>,
            !.frontIdx = loops.edges[1][2],
            !.backIdx = loops.edges[1][1],
            !.j = Len(loops.edges) - 2]
    /\ lastCall' = "GetEdgeLoops"
    /\ UNCHANGED loopsRest

\* one pass of the loop of lines 3283-3301 over edges[j]
LoopsScan ==
    /\ loops.pc = "scan"
    /\ loops.j >= 0
    /\ LET edge == loops.edges[loops.j + 1]
       IN IF edge[1] = loops.frontIdx \/ edge[2] = loops.frontIdx
          THEN LET temp == TowardsFront(edge, loops.frontIdx)
               IN loops' = [loops EXCEPT
                      !.frontIdx = temp[2],
                      !.front = Append(@, temp),
                      !.edges = SwapRemove(loops.edges, loops.j + 1),
                      !.j = Len(loops.edges) - 2]
          ELSE IF edge[1] = loops.backIdx \/ edge[2] = loops.backIdx
          THEN LET temp == TowardsBack(edge, loops.backIdx)
               IN loops' = [loops EXCEPT
                      !.backIdx = temp[1],
                      !.back = Append(@, temp),
                      !.edges = SwapRemove(loops.edges, loops.j + 1),
                      !.j = Len(loops.edges) - 2]
          ELSE loops' = [loops EXCEPT !.j = loops.j - 1]
    /\ lastCall' = "scan"
    /\ UNCHANGED loopsRest

\* lines 3302-3307: the loop is put together
LoopsClose ==
    /\ loops.pc = "scan"
    /\ loops.j < 0
    /\ loops' = [loops EXCEPT
            !.pc = "while",
            !.out = Append(@, Reversed(loops.back) \o <<loops.e>> \o loops.front)]
    /\ lastCall' = "loop"
    /\ UNCHANGED loopsRest

\* line 3309: return loops
LoopsReturn ==
    /\ loops.pc = "while"
    /\ Len(loops.edges) = 0
    /\ loops' = [loops EXCEPT !.pc = "done"]
    /\ lastCall' = "return"
    /\ UNCHANGED loopsRest

InitLoops ==
    /\ tree = {}
    /\ nodeIndex = [n \in {Root} |-> -1]
    /\ treeNodes = <<>>
    /\ nodeCount = <<>>
    /\ maxDepth = 0
    /\ lastCall = "none"
    /\ cData = NoTable
    /\ eData = NoTable
    /\ tableArgs = NoArgs
    /\ NoMatrix
    /\ sampleDepth = 0
    /\ constraints = <<>>
    /\ coefficients = <<>>
    /\ cg = NoCG
    /\ budget = NoBudget
    /\ cascade = NoCascade
    /\ subPass = NoSubPass
    /\ iso = NoIso
    /\ slots = NoSlots
    /\ getRoot = NoGetRoot
    /\ mesh = NoMesh
    /\ sink = NoSink
    /\ twice = NoTwice
    /\ splat = NoSplat
    /\ centerCall = NoCenterCall
    /\ isoCall = NoIsoCall
    /\ residual = NoResidual
    /\ product = NoProduct
    /\ restricted = NoRestricted
    /\ loops \in LoopCalls
    /\ triangles = NoTriangles
    /\ refine = NoRefine

NextLoops ==
    \/ LoopsTake
    \/ LoopsScan
    \/ LoopsClose
    \/ LoopsReturn

SpecLoops == InitLoops /\ [][NextLoops]_vars

\* how often the edge between the keys a and b, in either direction, is in s
CountIn(s, a, b) ==
    Cardinality({p \in 1..Len(s) : s[p] = <<a, b>> \/ s[p] = <<b, a>>})

\* how often it is in the loops of out
CountInLoops(out, a, b) ==
    Sum([k \in 1..Len(out) |-> RInt(CountIn(out[k], a, b))])[1]

\* the end of every edge of s is the start of the next
IsChain(s) == \A p \in 1..(Len(s) - 1) : s[p][2] = s[p + 1][1]

\* the edges of the loop that is being built
Building(c) == IF c.pc = "scan" THEN Reversed(c.back) \o <<c.e>> \o c.front ELSE <<>>

\* every edge of the input is in the list, in a loop or in the loop that is
\* being built, once; the loops and the one being built are chains
EdgesKept ==
    loops.pc # "none" =>
        /\ \A a, b \in 1..MaxKey :
              CountIn(loops.input, a, b) =
                 CountIn(loops.edges, a, b) + CountInLoops(loops.out, a, b)
                    + CountIn(Building(loops), a, b)
        /\ \A k \in 1..Len(loops.out) : loops.out[k] # <<>> /\ IsChain(loops.out[k])
        /\ IsChain(Building(loops))
        /\ loops.pc = "scan" =>
              /\ loops.frontIdx = Building(loops)[Len(Building(loops))][2]
              /\ loops.backIdx = Building(loops)[1][1]
        /\ loops.pc = "done" => loops.edges = <<>>

\* the steps GetEdgeLoops can still take are bounded by this
LoopsMeasure(c) ==
    IF c.pc = "done" THEN 0
    ELSE IF c.pc = "while" THEN Len(c.edges) * (Len(c.input) + 3) + 1
    ELSE Len(c.edges) * (Len(c.input) + 3) + c.j + 3

\* a step lowers the measure, which never goes below zero
LoopsProgress == LoopsMeasure(loops') < LoopsMeasure(loops) /\ LoopsMeasure(loops') >= 0

\* the guards of the four steps: one of them holds
LoopsCanStep ==
    \/ loops.pc = "while" /\ Len(loops.edges) # 0
    \/ loops.pc = "scan" /\ loops.j >= 0
    \/ loops.pc = "scan" /\ loops.j < 0
    \/ loops.pc = "while" /\ Len(loops.edges) = 0

\* C26: GetEdgeLoops terminates on every finite list of half-edges, leaves
\* the input list empty, and partitions it into chains: every input edge is,
\* possibly reversed, in exactly one output loop, and inside a loop the end
\* key of an edge is the start key of the next; edges that do not close are
\* returned as a chain, not dropped.
C26_ChainsOfAll ==
    /\ [](EdgesKept /\ (loops.pc \notin {"none", "done"} => LoopsCanStep))
    /\ [][LoopsProgress]_vars

\* three edges that do not close, the second and the third turned: one
\* chain of three is returned
C26_Witness ==
    /\ loops.pc = "done"
    /\ loops.edges = <<>>
    /\ Len(loops.input) = 3
    /\ Len(loops.out) = 1
    /\ Len(loops.out[1]) = 3
    /\ loops.out[1][1][1] # loops.out[1][3][2]
    /\ \E p \in 1..3 : \A q \in 1..3 : loops.input[q] # loops.out[1][p]
    /\ \A q \in 1..3 : loops.input[q][1] # loops.input[q][2]
    /\ loops.back # <<>> /\ loops.front # <<>>
    /\ IsChain(loops.out[1])

(***************************************************************************)
(* GetMCIsoTriangles for one node, from the loops of GetEdgeLoops on, and  *)
(* AddTriangles.  A loop is the sequence of its edges, an edge the index   *)
(* of the root of its first key, or no index when GetRootIndex fails.  The *)
(* sink is the sequence of the polygons passed to addPolygon, a polygon    *)
(* the sequence of its vertex indices.                                     *)
(***************************************************************************)
\* the index of the barycenter a call adds
BarycenterIndex == 99

\* MinimalAreaTriangulation::GetTriangulation: n - 2 triangles over the n
\* vertices, here the fan around the first
GetTriangulation(edges) ==
    [k \in 1..(Len(edges) - 2) |-> <<edges[1], edges[k + 1], edges[k + 2]>>]

\* AddTriangles(mesh, edges, interiorVertices, offSet, polygonMesh,
\* barycenters): the polygons passed to the sink and the value returned;
\* coplanar says whether two vertices that are not neighbours in the loop
\* share a coordinate
AddTriangles(edges, polygonMesh, barycenters, coplanar) ==
    LET n == Len(edges)
    IN IF polygonMesh THEN [polygons |-> <<edges>>, ret |-> 1]
       ELSE IF n > 3
       THEN IF barycenters /\ coplanar
            THEN [polygons |-> [i \in 1..n |-> <<edges[i], edges[(i % n) + 1], BarycenterIndex>>],
                  ret |-> n]
            ELSE [polygons |-> GetTriangulation(edges), ret |-> n - 2]
       ELSE IF n = 3 THEN [polygons |-> <<edges>>, ret |-> n - 2]
       ELSE [polygons |-> <<>>, ret |-> n - 2]

\* edgeIndices of a loop: the indices that GetRootIndex finds, from the last
\* edge of the loop to the first
EdgeIndicesOf(loop) ==
    LET found == SelectSeq(loop, LAMBDA p : p # NoIndex)
    IN [k \in 1..Len(found) |-> found[Len(found) + 1 - k]]

\* the loops of a node
MaxLoops == 1

\* the edges of a loop
MaxLoopEdges == 4

\* GetMCIsoTriangles after GetEdgeLoops: edge j of loop i has the root index
\* 10 i + j or none
TriangleRuns ==
    { [pc |-> "loops", edgeLoops |-> edgeLoops, polygonMesh |-> polygonMesh,
       barycenters |-> barycenters, coplanar |-> coplanar, i |-> 1, tris |-> 0,
       polygons |-> <<>>, returned |-> <<>>] :
        edgeLoops \in UNION { { [i \in 1..m |-> [j \in 1..Len(f[i]) |->
                                    IF f[i][j] THEN 10 * i + j ELSE NoIndex]] :
                                  f \in [1..m -> UNION {[1..n -> BOOLEAN] : n \in 1..MaxLoopEdges}] } :
                              m \in 1..MaxLoops },
        polygonMesh \in BOOLEAN, barycenters \in BOOLEAN, coplanar \in BOOLEAN }

\* one pass of the loop of lines 3256-3265
TrianglesLoop ==
    /\ triangles.pc = "loops"
    /\ triangles.i <= Len(triangles.edgeLoops)
    /\ LET call == AddTriangles(EdgeIndicesOf(triangles.edgeLoops[triangles.i]),
                                triangles.polygonMesh, triangles.barycenters, triangles.coplanar)
       IN triangles' = [triangles EXCEPT
            !.i = @ + 1,
            !.tris = @ + call.ret,
            !.polygons = @ \o call.polygons,
            !.returned = Append(@, call.ret)]
    /\ lastCall' = "AddTriangles"
    /\ UNCHANGED trianglesRest

\* line 3266: return tris
TrianglesReturn ==
    /\ triangles.pc = "loops"
    /\ triangles.i > Len(triangles.edgeLoops)
    /\ triangles' = [triangles EXCEPT !.pc = "done"]
    /\ lastCall' = "return"
    /\ UNCHANGED trianglesRest

InitTriangles ==
    /\ tree = {}
    /\ nodeIndex = [n \in {Root} |-> -1]
    /\ treeNodes = <<>>
    /\ nodeCount = <<>>
    /\ maxDepth = 0
    /\ lastCall = "none"
    /\ cData = NoTable
    /\ eData = NoTable
    /\ tableArgs = NoArgs
    /\ NoMatrix
    /\ sampleDepth = 0
    /\ constraints = <<>>
    /\ coefficients = <<>>
    /\ cg = NoCG
    /\ budget = NoBudget
    /\ cascade = NoCascade
    /\ subPass = NoSubPass
    /\ iso = NoIso
    /\ slots = NoSlots
    /\ getRoot = NoGetRoot
    /\ mesh = NoMesh
    /\ sink = NoSink
    /\ twice = NoTwice
    /\ splat = NoSplat
    /\ centerCall = NoCenterCall
    /\ isoCall = NoIsoCall
    /\ residual = NoResidual
    /\ product = NoProduct
    /\ restricted = NoRestricted
    /\ loops = NoLoops
    /\ triangles \in TriangleRuns
    /\ refine = NoRefine

NextTriangles ==
    \/ TrianglesLoop
    \/ TrianglesReturn

SpecTriangles == InitTriangles /\ [][NextTriangles]_vars

\* in triangle mode every polygon passed to the sink has three vertices
TrianglesOnly ==
    (triangles.pc # "none" /\ ~triangles.polygonMesh) =>
        \A k \in 1..Len(triangles.polygons) : Len(triangles.polygons[k]) = 3

\* a loop that keeps three or more of its vertices gives polygons of three or
\* more vertices and a positive count
WholeLoopsFine ==
    triangles.pc # "none" =>
        \A i \in 1..Len(triangles.returned) :
            Len(EdgeIndicesOf(triangles.edgeLoops[i])) >= 3 =>
                /\ triangles.returned[i] >= 1
                /\ LET call == AddTriangles(EdgeIndicesOf(triangles.edgeLoops[i]),
                                            triangles.polygonMesh, triangles.barycenters,
                                            triangles.coplanar)
                   IN \A k \in 1..Len(call.polygons) : Len(call.polygons[k]) >= 3

\* C27: no polygon with fewer than three vertices is ever passed to the mesh
\* sink: when a loop loses vertices because the root index of one of its
\* edges is missing, or has fewer than three edges, nothing is emitted for it,
\* in triangle mode and in polygonMesh mode alike, and the triangle count that
\* AddTriangles returns is never negative.
C27_NoDegenerate ==
    triangles.pc # "none" =>
        /\ \A k \in 1..Len(triangles.polygons) : Len(triangles.polygons[k]) >= 3
        /\ \A i \in 1..Len(triangles.returned) : triangles.returned[i] >= 0

\* polygonMesh mode, a loop of three edges with one root index missing: a
\* polygon of two vertices has been passed to the sink and counted
C27_Diverges ==
    /\ triangles.pc = "done"
    /\ triangles.polygonMesh
    /\ Len(triangles.edgeLoops[1]) = 3
    /\ Len(EdgeIndicesOf(triangles.edgeLoops[1])) = 2
    /\ triangles.polygons[1] = EdgeIndicesOf(triangles.edgeLoops[1])
    /\ triangles.returned[1] = 1

\* triangle mode, a loop of which one vertex is left: nothing is passed to
\* the sink and AddTriangles returns -1
NegativeCount ==
    /\ triangles.pc = "done"
    /\ ~triangles.polygonMesh
    /\ Len(EdgeIndicesOf(triangles.edgeLoops[1])) = 1
    /\ triangles.polygons = <<>>
    /\ triangles.returned[1] = -1
    /\ triangles.tris < 0

(***************************************************************************)
(* refineBoundary: one pass of the loop over the leaves.  neighbors is     *)
(* what getNeighbors3(leaf) holds of the six face neighbours; flags is the *)
(* set of the positions <<i, j, k>> of flags[i][j][k] that are set.         *)
(***************************************************************************)
\* boundary[c][0] and boundary[c][1] of a leaf of depth d for an offset
Boundary(d, sDepth, off) ==
    LET res == 2 ^ d - 1
        _res == 2 ^ (d - sDepth) - 1
        _off == off % (_res + 1)
    IN <<off # 0 /\ _off = 0, off # res /\ _off = _res>>

\* x, y or z: the side on which the leaf lies on the boundary and lacks its
\* neighbour; lower and upper say whether the two neighbours exist
MissingSide(boundary, lower, upper) ==
    IF boundary[1] /\ ~lower THEN -1
    ELSE IF boundary[2] /\ ~upper THEN 1
    ELSE 0

\* the flags set for x, y, z (lines 2117-2127)
BoundaryFlags(x, y, z) ==
    (IF x # 0 /\ y # 0 /\ z # 0 THEN {<<1 + x, 1 + y, 1 + z>>} ELSE {})
        \cup (IF x # 0 /\ y # 0 THEN {<<1 + x, 1 + y, 1>>} ELSE {})
        \cup (IF x # 0 /\ z # 0 THEN {<<1 + x, 1, 1 + z>>} ELSE {})
        \cup (IF y # 0 /\ z # 0 THEN {<<1, 1 + y, 1 + 1>>} ELSE {})
        \cup (IF x # 0 THEN {<<1 + x, 1, 1>>} ELSE {})
        \cup (IF y # 0 THEN {<<1, 1 + y, 1>>} ELSE {})
        \cup (IF z # 0 THEN {<<1, 1, 1 + z>>} ELSE {})

\* the depth of the deepest leaf
MaxLeafDepth == 2

\* the loop at a leaf: its depth and offsets, sDepth > 0, and which of its
\* face neighbours exist, lower and upper along each axis
RefineLeaves ==
    { [pc |-> "leaf", d |-> d, off |-> off, sDepth |-> sDepth, lower |-> lower,
       upper |-> upper, x |-> 0, y |-> 0, z |-> 0, flags |-> {}] :
        d \in 1..MaxLeafDepth, sDepth \in 1..MaxLeafDepth,
        off \in (0..(2 ^ MaxLeafDepth - 1)) \X (0..(2 ^ MaxLeafDepth - 1))
                   \X (0..(2 ^ MaxLeafDepth - 1)),
        lower \in [1..3 -> BOOLEAN], upper \in [1..3 -> BOOLEAN] }

\* x, y and z of the leaf
SideOf(c, k) == MissingSide(Boundary(c.d, c.sDepth, c.off[k]), c.lower[k], c.upper[k])

\* the leaf is passed over: too coarse, not on the boundary, or nothing missing
RefineSkips(c) ==
    IF c.d <= c.sDepth THEN TRUE
    ELSE IF \A k \in 1..3 : Boundary(c.d, c.sDepth, c.off[k]) = <<FALSE, FALSE>> THEN TRUE
    ELSE \A k \in 1..3 : SideOf(c, k) = 0

\* lines 2093, 2106-2107 and 2116: continue
RefineContinue ==
    /\ refine.pc = "leaf"
    /\ RefineSkips(refine)
    /\ refine' = [refine EXCEPT !.pc = "skipped"]
    /\ lastCall' = "continue"
    /\ UNCHANGED refineRest

\* lines 2092-2128: the flags of the leaf are set and passed to setNeighbors
RefineFlag ==
    /\ refine.pc = "leaf"
    /\ ~RefineSkips(refine)
    /\ refine' = [refine EXCEPT
            !.pc = "flagged",
            !.x = SideOf(refine, 1),
            !.y = SideOf(refine, 2),
            !.z = SideOf(refine, 3),
            !.flags = BoundaryFlags(SideOf(refine, 1), SideOf(refine, 2), SideOf(refine, 3))]
    /\ lastCall' = "setNeighbors"
    /\ UNCHANGED refineRest

InitRefine ==
    /\ tree = {}
    /\ nodeIndex = [n \in {Root} |-> -1]
    /\ treeNodes = <<>>
    /\ nodeCount = <<>>
    /\ maxDepth = 0
    /\ lastCall = "none"
    /\ cData = NoTable
    /\ eData = NoTable
    /\ tableArgs = NoArgs
    /\ NoMatrix
    /\ sampleDepth = 0
    /\ constraints = <<>>
    /\ coefficients = <<>>
    /\ cg = NoCG
    /\ budget = NoBudget
    /\ cascade = NoCascade
    /\ subPass = NoSubPass
    /\ iso = NoIso
    /\ slots = NoSlots
    /\ getRoot = NoGetRoot
    /\ mesh = NoMesh
    /\ sink = NoSink
    /\ twice = NoTwice
    /\ splat = NoSplat
    /\ centerCall = NoCenterCall
    /\ isoCall = NoIsoCall
    /\ residual = NoResidual
    /\ product = NoProduct
    /\ restricted = NoRestricted
    /\ loops = NoLoops
    /\ triangles = NoTriangles
    /\ refine \in {c \in RefineLeaves : \A k \in 1..3 : c.off[k] <= 2 ^ c.d - 1}

NextRefine ==
    \/ RefineContinue
    \/ RefineFlag

SpecRefine == InitRefine /\ [][NextRefine]_vars

\* the face, edge and corner neighbours in the directions x, y, z
NeighboursToward(x, y, z) ==
    { <<1 + a, 1 + b, 1 + c>> : a \in {0, x}, b \in {0, y}, c \in {0, z} } \ {<<1, 1, 1>>}

\* x, y, z are the sides on which the leaf lies on the boundary of its
\* depth-sDepth ancestor, inside the domain, without its face neighbour
SidesAsStated ==
    refine.pc = "flagged" =>
        /\ refine.d > refine.sDepth
        /\ <<refine.x, refine.y, refine.z>> # <<0, 0, 0>>
        /\ \A k \in 1..3 :
              LET s == <<refine.x, refine.y, refine.z>>[k]
                  w == 2 ^ (refine.d - refine.sDepth)
              IN /\ s = -1 => refine.off[k] % w = 0 /\ refine.off[k] # 0 /\ ~refine.lower[k]
                 /\ s = 1 => refine.off[k] % w = w - 1 /\ refine.off[k] # 2 ^ refine.d - 1
                                /\ ~refine.upper[k]

\* unless y is missing and z is missing on the lower side, the flags are the
\* neighbours in the directions x, y, z
FlagsElsewhere ==
    (refine.pc = "flagged" /\ ~(refine.y # 0 /\ refine.z = -1)) =>
        refine.flags = NeighboursToward(refine.x, refine.y, refine.z)

\* C29: in refineBoundary, for every leaf deeper than sDepth that lies on a
\* subdivision boundary and lacks neighbours across it in the directions
\* (x, y, z), the neighbours flagged for creation are exactly the face, edge
\* and corner neighbours in those directions; when both the y and the z
\* neighbour are missing the edge neighbour flagged is [1][1 + y][1 + z], for
\* z = -1 as for z = +1.
C29_FlagsToward ==
    refine.pc = "flagged" =>
        /\ refine.flags = NeighboursToward(refine.x, refine.y, refine.z)
        /\ (refine.y # 0 /\ refine.z # 0) => <<1, 1 + refine.y, 1 + refine.z>> \in refine.flags

\* y and z = -1 missing: [1][1 + y][2] is flagged, [1][1 + y][0] is not
C29_Diverges ==
    /\ refine.pc = "flagged"
    /\ refine.y # 0
    /\ refine.z = -1
    /\ <<1, 1 + refine.y, 2>> \in refine.flags
    /\ <<1, 1 + refine.y, 0>> \notin refine.flags
    /\ <<1, 1, 0>> \in refine.flags

=============================================================================
